---------------------------- MODULE Spec2Model ----------------------------
(***************************************************************************)
(* A model of the JurisTrack geo-compliance analysis pipeline:             *)
(* JargonResolver (jargon_resolver.py), RegulationKnowledgeBase            *)
(* (regulation_kb.py) and ComplianceAnalyzer (compliance_analyzer.py).     *)
(*                                                                         *)
(* Python strings that the code searches, lower-cases, rewrites or sorts   *)
(* are sequences of one-character strings; regulation names and regions    *)
(* are TLA+ strings whose characters the table Chars gives.  A JSON value  *)
(* decoded from the remote provider is a tagged record (JBool, JInt, ...). *)
(* Similarities are integers in hundredths (0.1 is 10).                    *)
(***************************************************************************)
EXTENDS Integers, Sequences, FiniteSets, TLC

(***************************************************************************)
(* Characters and strings                                                  *)
(***************************************************************************)
UpperAlpha ==
  <<"A","B","C","D","E","F","G","H","I","J","K","L","M",
    "N","O","P","Q","R","S","T","U","V","W","X","Y","Z">>

LowerAlpha ==
  <<"a","b","c","d","e","f","g","h","i","j","k","l","m",
    "n","o","p","q","r","s","t","u","v","w","x","y","z">>

DigitChars == {"0","1","2","3","4","5","6","7","8","9"}

Range(s) == {s[i] : i \in DOMAIN s}

UpperChars == Range(UpperAlpha)

LowerOf == [c \in UpperChars |-> LowerAlpha[CHOOSE i \in DOMAIN UpperAlpha : UpperAlpha[i] = c]]

\* str.lower() on one character, and on a string
LowerChar(c) == IF c \in UpperChars THEN LowerOf[c] ELSE c

Lower(s) == [i \in 1..Len(s) |-> LowerChar(s[i])]

\* the regular-expression class \w
WordChars == UpperChars \cup Range(LowerAlpha) \cup DigitChars \cup {"_"}

IsWordChar(c) == c \in WordChars

\* the ASCII characters of code points 32 to 95, in order
AsciiLow ==
  <<" ","!","\"","#","$","%","&","'","(",")","*","+",",","-",".","/",
    "0","1","2","3","4","5","6","7","8","9",":",";","<","=",">","?","@">>
  \o UpperAlpha \o <<"[","\\","]","^","_">>

OrdOf ==
  [c \in Range(AsciiLow) \cup Range(LowerAlpha) |->
     IF c \in Range(LowerAlpha)
     THEN 96 + CHOOSE i \in DOMAIN LowerAlpha : LowerAlpha[i] = c
     ELSE 31 + CHOOSE i \in DOMAIN AsciiLow : AsciiLow[i] = c]

\* ord(c)
Ord(c) == OrdOf[c]

\* k occurs in t at position i
StartsAt(t, k, i) ==
  /\ i + Len(k) - 1 <= Len(t)
  /\ k = <<>> \/ (t[i] = k[1] /\ SubSeq(t, i, i + Len(k) - 1) = k)

\* Python's  k in t  on strings
Contains(t, k) == \E i \in 1..(Len(t) - Len(k) + 1) : StartsAt(t, k, i)

\* the regular-expression assertion \b before position p of t (p in 1..Len(t)+1)
WordBoundary(t, p) ==
  LET before == p > 1 /\ IsWordChar(t[p - 1])
      after  == p <= Len(t) /\ IsWordChar(t[p])
  IN  before # after

\* re.search(r'\b' + re.escape(k) + r'\b', t)
SearchWord(t, k) ==
  \E i \in 1..(Len(t) - Len(k) + 1) :
     StartsAt(t, k, i) /\ WordBoundary(t, i) /\ WordBoundary(t, i + Len(k))

\* a < b for Python strings (code-point lexicographic order)
StrLess(a, b) ==
  \E i \in 1..(Len(a) + 1) :
     /\ \A j \in 1..(i - 1) : j <= Len(b) /\ a[j] = b[j]
     /\ i <= Len(b)
     /\ (i = Len(a) + 1 \/ Ord(a[i]) < Ord(b[i]))

\* str.strip() for the blanks the model's texts hold
RECURSIVE LStrip(_)
LStrip(s) == IF s # <<>> /\ Head(s) = " " THEN LStrip(Tail(s)) ELSE s

RECURSIVE RStrip(_)
RStrip(s) == IF s # <<>> /\ s[Len(s)] = " " THEN RStrip(SubSeq(s, 1, Len(s) - 1)) ELSE s

Strip(s) == RStrip(LStrip(s))

(***************************************************************************)
(* Ordered dictionaries: a Python dict is the sequence of its <<key,       *)
(* value>> pairs in insertion order.                                       *)
(***************************************************************************)
DictKeys(d) == {d[i][1] : i \in DOMAIN d}

DictGet(d, k) == d[CHOOSE i \in DOMAIN d : d[i][1] = k][2]

\* d[k] = v : an existing key keeps its place and takes the new value
DictSet(d, k, v) ==
  IF k \in DictKeys(d)
  THEN [i \in DOMAIN d |-> IF d[i][1] = k THEN <<k, v>> ELSE d[i]]
  ELSE Append(d, <<k, v>>)

\* d.update(e)
RECURSIVE DictUpdate(_, _)
DictUpdate(d, e) ==
  IF e = <<>> THEN d ELSE DictUpdate(DictSet(d, e[1][1], e[1][2]), Tail(e))

(***************************************************************************)
(* The fixed tables of the program                                         *)
(***************************************************************************)
\* JargonResolver._build_jargon_dictionary: term -> meaning, in insertion order
SeedJargonDictionary ==
  << <<<<"j","e","l","l","y","b","e","a","n">>,
       <<"c","o","n","t","e","n","t"," ","m","o","d","e","r","a","t","i","o","n"," ","s","y","s","t","e","m">>>>,
     <<<<"g","l","o","w">>,
       <<"r","e","c","o","m","m","e","n","d","a","t","i","o","n"," ","a","l","g","o","r","i","t","h","m">>>>,
     <<<<"s","p","a","n","n","e","r">>,
       <<"d","i","s","t","r","i","b","u","t","e","d"," ","d","a","t","a","b","a","s","e"," ","s","y","s","t","e","m">>>>,
     <<<<"l","i","b","r","a">>,
       <<"u","s","e","r"," ","s","a","f","e","t","y"," ","f","r","a","m","e","w","o","r","k">>>>,
     <<<<"c","o","m","p","a","s","s">>,
       <<"c","o","n","t","e","n","t"," ","p","o","l","i","c","y"," ","e","n","g","i","n","e">>>>,
     <<<<"l","i","g","h","t","h","o","u","s","e">>,
       <<"c","o","m","p","l","i","a","n","c","e"," ","m","o","n","i","t","o","r","i","n","g"," ","s","y","s","t","e","m">>>>,
     <<<<"p","r","i","s","m">>,
       <<"u","s","e","r"," ","a","n","a","l","y","t","i","c","s"," ","p","l","a","t","f","o","r","m">>>>,
     <<<<"a","t","l","a","s">>,
       <<"g","e","o","g","r","a","p","h","i","c"," ","c","o","n","t","e","n","t"," ","r","o","u","t","i","n","g">>>>,
     <<<<"n","e","x","u","s">>,
       <<"c","r","o","s","s","-","p","l","a","t","f","o","r","m"," ","i","n","t","e","g","r","a","t","i","o","n">>>>,
     <<<<"q","u","a","n","t","u","m">>,
       <<"r","e","a","l","-","t","i","m","e"," ","p","r","o","c","e","s","s","i","n","g"," ","e","n","g","i","n","e">>>>,
     <<<<"u","g","c">>,
       <<"u","s","e","r","-","g","e","n","e","r","a","t","e","d"," ","c","o","n","t","e","n","t">>>>,
     <<<<"c","s","a","m">>,
       <<"c","h","i","l","d"," ","s","e","x","u","a","l"," ","a","b","u","s","e"," ","m","a","t","e","r","i","a","l">>>>,
     <<<<"d","m","c","a">>,
       <<"d","i","g","i","t","a","l"," ","m","i","l","l","e","n","n","i","u","m"," ","c","o","p","y","r","i","g","h","t"," ","a","c","t"," ","t","a","k","e","d","o","w","n">>>>,
     <<<<"v","i","o","l","a","t","i","v","e"," ","c","o","n","t","e","n","t">>,
       <<"c","o","n","t","e","n","t"," ","t","h","a","t"," ","v","i","o","l","a","t","e","s"," ","c","o","m","m","u","n","i","t","y"," ","g","u","i","d","e","l","i","n","e","s">>>>,
     <<<<"s","h","a","d","o","w"," ","b","a","n">>,
       <<"c","o","n","t","e","n","t"," ","v","i","s","i","b","i","l","i","t","y"," ","r","e","s","t","r","i","c","t","i","o","n">>>>,
     <<<<"c","o","n","t","e","n","t"," ","t","a","k","e","d","o","w","n">>,
       <<"c","o","n","t","e","n","t"," ","r","e","m","o","v","a","l"," ","f","r","o","m"," ","p","l","a","t","f","o","r","m">>>>,
     <<<<"d","e","b","o","o","s","t">>,
       <<"r","e","d","u","c","e"," ","c","o","n","t","e","n","t"," ","r","e","a","c","h"," ","i","n"," ","a","l","g","o","r","i","t","h","m">>>>,
     <<<<"s","a","f","e","t","y"," ","m","o","d","e">>,
       <<"r","e","s","t","r","i","c","t","e","d"," ","c","o","n","t","e","n","t"," ","v","i","e","w","i","n","g"," ","m","o","d","e">>>>,
     <<<<"t","r","u","s","t"," ","a","n","d"," ","s","a","f","e","t","y">>,
       <<"u","s","e","r"," ","p","r","o","t","e","c","t","i","o","n"," ","a","n","d"," ","c","o","n","t","e","n","t"," ","m","o","d","e","r","a","t","i","o","n">>>>,
     <<<<"m","i","n","o","r"," ","u","s","e","r">>,
       <<"u","s","e","r"," ","u","n","d","e","r"," ","1","8"," ","y","e","a","r","s"," ","o","l","d">>>>,
     <<<<"v","e","r","i","f","i","e","d"," ","a","c","c","o","u","n","t">>,
       <<"a","c","c","o","u","n","t"," ","w","i","t","h"," ","v","e","r","i","f","i","e","d"," ","i","d","e","n","t","i","t","y">>>>,
     <<<<"c","r","e","a","t","o","r"," ","f","u","n","d">>,
       <<"m","o","n","e","t","i","z","a","t","i","o","n"," ","p","r","o","g","r","a","m"," ","f","o","r"," ","c","o","n","t","e","n","t"," ","c","r","e","a","t","o","r","s">>>>,
     <<<<"b","r","a","n","d"," ","a","c","c","o","u","n","t">>,
       <<"b","u","s","i","n","e","s","s"," ","o","r"," ","o","r","g","a","n","i","z","a","t","i","o","n"," ","a","c","c","o","u","n","t">>>>,
     <<<<"i","n","f","l","u","e","n","c","e","r"," ","t","i","e","r">>,
       <<"c","l","a","s","s","i","f","i","c","a","t","i","o","n"," ","b","a","s","e","d"," ","o","n"," ","f","o","l","l","o","w","e","r"," ","c","o","u","n","t">>>>,
     <<<<"a","c","c","o","u","n","t"," ","r","e","s","t","r","i","c","t","i","o","n">>,
       <<"l","i","m","i","t","a","t","i","o","n"," ","o","n"," ","a","c","c","o","u","n","t"," ","f","u","n","c","t","i","o","n","a","l","i","t","y">>>>,
     <<<<"a","g","e"," ","g","a","t","e">>,
       <<"a","g","e"," ","v","e","r","i","f","i","c","a","t","i","o","n"," ","c","h","e","c","k","p","o","i","n","t">>>>,
     <<<<"f","y","p">>,
       <<"f","o","r"," ","y","o","u"," ","p","a","g","e"," ","r","e","c","o","m","m","e","n","d","a","t","i","o","n"," ","f","e","e","d">>>>,
     <<<<"e","n","g","a","g","e","m","e","n","t"," ","s","i","g","n","a","l">>,
       <<"u","s","e","r"," ","i","n","t","e","r","a","c","t","i","o","n"," ","m","e","t","r","i","c">>>>,
     <<<<"c","o","n","t","e","n","t"," ","s","i","g","n","a","l">>,
       <<"a","l","g","o","r","i","t","h","m","i","c"," ","c","o","n","t","e","n","t"," ","q","u","a","l","i","t","y"," ","i","n","d","i","c","a","t","o","r">>>>,
     <<<<"u","s","e","r"," ","s","i","g","n","a","l">>,
       <<"b","e","h","a","v","i","o","r","a","l"," ","p","a","t","t","e","r","n"," ","i","n","d","i","c","a","t","o","r">>>>,
     <<<<"r","e","c","o","m","m","e","n","d","a","t","i","o","n"," ","e","n","g","i","n","e">>,
       <<"a","l","g","o","r","i","t","h","m"," ","s","u","g","g","e","s","t","i","n","g"," ","c","o","n","t","e","n","t"," ","t","o"," ","u","s","e","r","s">>>>,
     <<<<"c","o","n","t","e","n","t"," ","r","a","n","k","i","n","g">>,
       <<"a","l","g","o","r","i","t","h","m","i","c"," ","c","o","n","t","e","n","t"," ","p","r","i","o","r","i","t","i","z","a","t","i","o","n">>>>,
     <<<<"p","e","r","s","o","n","a","l","i","z","a","t","i","o","n"," ","v","e","c","t","o","r">>,
       <<"u","s","e","r"," ","p","r","e","f","e","r","e","n","c","e"," ","d","a","t","a"," ","r","e","p","r","e","s","e","n","t","a","t","i","o","n">>>>,
     <<<<"i","n","t","e","r","e","s","t"," ","g","r","a","p","h">>,
       <<"u","s","e","r"," ","i","n","t","e","r","e","s","t"," ","m","a","p","p","i","n","g"," ","s","y","s","t","e","m">>>>,
     <<<<"p","i","i">>,
       <<"p","e","r","s","o","n","a","l","l","y"," ","i","d","e","n","t","i","f","i","a","b","l","e"," ","i","n","f","o","r","m","a","t","i","o","n">>>>,
     <<<<"d","e","v","i","c","e"," ","f","i","n","g","e","r","p","r","i","n","t">>,
       <<"u","n","i","q","u","e"," ","d","e","v","i","c","e"," ","i","d","e","n","t","i","f","i","c","a","t","i","o","n"," ","m","e","t","h","o","d">>>>,
     <<<<"c","r","o","s","s","-","d","e","v","i","c","e"," ","t","r","a","c","k","i","n","g">>,
       <<"u","s","e","r"," ","a","c","t","i","v","i","t","y"," ","t","r","a","c","k","i","n","g"," ","a","c","r","o","s","s"," ","d","e","v","i","c","e","s">>>>,
     <<<<"d","a","t","a"," ","r","e","t","e","n","t","i","o","n"," ","p","o","l","i","c","y">>,
       <<"r","u","l","e","s"," ","f","o","r"," ","k","e","e","p","i","n","g"," ","u","s","e","r"," ","d","a","t","a">>>>,
     <<<<"g","d","p","r"," ","c","o","m","p","l","i","a","n","c","e">>,
       <<"g","e","n","e","r","a","l"," ","d","a","t","a"," ","p","r","o","t","e","c","t","i","o","n"," ","r","e","g","u","l","a","t","i","o","n"," ","a","d","h","e","r","e","n","c","e">>>>,
     <<<<"c","c","p","a"," ","c","o","m","p","l","i","a","n","c","e">>,
       <<"c","a","l","i","f","o","r","n","i","a"," ","c","o","n","s","u","m","e","r"," ","p","r","i","v","a","c","y"," ","a","c","t"," ","a","d","h","e","r","e","n","c","e">>>>,
     <<<<"d","a","t","a"," ","l","o","c","a","l","i","z","a","t","i","o","n">>,
       <<"s","t","o","r","i","n","g"," ","d","a","t","a"," ","w","i","t","h","i","n"," ","s","p","e","c","i","f","i","c"," ","g","e","o","g","r","a","p","h","i","c"," ","b","o","u","n","d","a","r","i","e","s">>>>,
     <<<<"u","s","e","r"," ","c","o","n","s","e","n","t">>,
       <<"e","x","p","l","i","c","i","t"," ","p","e","r","m","i","s","s","i","o","n"," ","f","o","r"," ","d","a","t","a"," ","p","r","o","c","e","s","s","i","n","g">>>>,
     <<<<"g","e","o","-","b","l","o","c","k","i","n","g">>,
       <<"r","e","s","t","r","i","c","t","i","n","g"," ","c","o","n","t","e","n","t"," ","b","y"," ","g","e","o","g","r","a","p","h","i","c"," ","l","o","c","a","t","i","o","n">>>>,
     <<<<"r","e","g","i","o","n"," ","l","o","c","k">>,
       <<"l","i","m","i","t","i","n","g"," ","f","e","a","t","u","r","e"," ","a","c","c","e","s","s"," ","b","y"," ","l","o","c","a","t","i","o","n">>>>,
     <<<<"c","o","m","p","l","i","a","n","c","e"," ","f","r","a","m","e","w","o","r","k">>,
       <<"r","e","g","u","l","a","t","o","r","y"," ","a","d","h","e","r","e","n","c","e"," ","s","y","s","t","e","m">>>>,
     <<<<"a","g","e"," ","v","e","r","i","f","i","c","a","t","i","o","n"," ","s","y","s","t","e","m">>,
       <<"m","e","t","h","o","d"," ","t","o"," ","v","e","r","i","f","y"," ","u","s","e","r"," ","a","g","e">>>>,
     <<<<"p","a","r","e","n","t","a","l"," ","c","o","n","s","e","n","t">>,
       <<"g","u","a","r","d","i","a","n"," ","p","e","r","m","i","s","s","i","o","n"," ","f","o","r"," ","m","i","n","o","r"," ","a","c","c","o","u","n","t","s">>>>,
     <<<<"c","u","r","f","e","w"," ","m","o","d","e">>,
       <<"t","i","m","e","-","b","a","s","e","d"," ","u","s","a","g","e"," ","r","e","s","t","r","i","c","t","i","o","n","s">>>>,
     <<<<"l","o","c","a","l"," ","c","o","n","t","e","n","t"," ","p","o","l","i","c","y">>,
       <<"r","e","g","i","o","n","-","s","p","e","c","i","f","i","c"," ","c","o","n","t","e","n","t"," ","r","u","l","e","s">>>>,
     <<<<"r","e","g","u","l","a","t","o","r","y"," ","s","a","n","d","b","o","x">>,
       <<"t","e","s","t","i","n","g"," ","e","n","v","i","r","o","n","m","e","n","t"," ","f","o","r"," ","c","o","m","p","l","i","a","n","c","e"," ","f","e","a","t","u","r","e","s">>>>,
     <<<<"a","p","i"," ","e","n","d","p","o","i","n","t">>,
       <<"s","o","f","t","w","a","r","e"," ","i","n","t","e","r","f","a","c","e"," ","a","c","c","e","s","s"," ","p","o","i","n","t">>>>,
     <<<<"m","i","c","r","o","s","e","r","v","i","c","e">>,
       <<"i","n","d","e","p","e","n","d","e","n","t"," ","s","o","f","t","w","a","r","e"," ","c","o","m","p","o","n","e","n","t">>>>,
     <<<<"f","e","a","t","u","r","e"," ","f","l","a","g">>,
       <<"t","o","g","g","l","e"," ","f","o","r"," ","e","n","a","b","l","i","n","g","/","d","i","s","a","b","l","i","n","g"," ","f","e","a","t","u","r","e","s">>>>,
     <<<<"a","/","b"," ","t","e","s","t">>,
       <<"c","o","m","p","a","r","i","n","g"," ","t","w","o"," ","v","e","r","s","i","o","n","s"," ","o","f"," ","a"," ","f","e","a","t","u","r","e">>>>,
     <<<<"c","i","r","c","u","i","t"," ","b","r","e","a","k","e","r">>,
       <<"s","y","s","t","e","m"," ","f","a","i","l","u","r","e"," ","p","r","o","t","e","c","t","i","o","n"," ","m","e","c","h","a","n","i","s","m">>>>,
     <<<<"r","a","t","e"," ","l","i","m","i","t","i","n","g">>,
       <<"c","o","n","t","r","o","l","l","i","n","g"," ","r","e","q","u","e","s","t"," ","f","r","e","q","u","e","n","c","y">>>>,
     <<<<"l","o","a","d"," ","b","a","l","a","n","c","e","r">>,
       <<"t","r","a","f","f","i","c"," ","d","i","s","t","r","i","b","u","t","i","o","n"," ","s","y","s","t","e","m">>>>,
     <<<<"c","d","n">>,
       <<"c","o","n","t","e","n","t"," ","d","e","l","i","v","e","r","y"," ","n","e","t","w","o","r","k">>>>,
     <<<<"k","p","i">>,
       <<"k","e","y"," ","p","e","r","f","o","r","m","a","n","c","e"," ","i","n","d","i","c","a","t","o","r">>>>,
     <<<<"d","a","u">>,
       <<"d","a","i","l","y"," ","a","c","t","i","v","e"," ","u","s","e","r","s">>>>,
     <<<<"m","a","u">>,
       <<"m","o","n","t","h","l","y"," ","a","c","t","i","v","e"," ","u","s","e","r","s">>>>,
     <<<<"l","t","v">>,
       <<"l","i","f","e","t","i","m","e"," ","v","a","l","u","e">>>>,
     <<<<"c","h","u","r","n"," ","r","a","t","e">>,
       <<"u","s","e","r"," ","r","e","t","e","n","t","i","o","n"," ","m","e","t","r","i","c">>>>,
     <<<<"c","o","n","v","e","r","s","i","o","n"," ","f","u","n","n","e","l">>,
       <<"u","s","e","r"," ","j","o","u","r","n","e","y"," ","t","r","a","c","k","i","n","g">>>>,
     <<<<"r","e","t","e","n","t","i","o","n"," ","c","o","h","o","r","t">>,
       <<"u","s","e","r"," ","g","r","o","u","p"," ","r","e","t","e","n","t","i","o","n"," ","a","n","a","l","y","s","i","s">>>>,
     <<<<"g","r","o","w","t","h"," ","h","a","c","k">>,
       <<"s","t","r","a","t","e","g","y"," ","t","o"," ","i","n","c","r","e","a","s","e"," ","u","s","e","r"," ","a","d","o","p","t","i","o","n">>>>,
     <<<<"s","h","o","r","t"," ","f","o","r","m"," ","v","i","d","e","o">>,
       <<"v","i","d","e","o"," ","c","o","n","t","e","n","t"," ","u","n","d","e","r"," ","6","0"," ","s","e","c","o","n","d","s">>>>,
     <<<<"l","i","v","e"," ","s","t","r","e","a","m","i","n","g">>,
       <<"r","e","a","l","-","t","i","m","e"," ","v","i","d","e","o"," ","b","r","o","a","d","c","a","s","t">>>>,
     <<<<"d","u","e","t">>,
       <<"c","o","l","l","a","b","o","r","a","t","i","v","e"," ","v","i","d","e","o"," ","f","o","r","m","a","t">>>>,
     <<<<"s","t","i","t","c","h">>,
       <<"v","i","d","e","o"," ","r","e","m","i","x"," ","f","e","a","t","u","r","e">>>>,
     <<<<"s","o","u","n","d"," ","b","i","t","e">>,
       <<"a","u","d","i","o"," ","c","l","i","p"," ","f","o","r"," ","v","i","d","e","o"," ","c","r","e","a","t","i","o","n">>>>,
     <<<<"h","a","s","h","t","a","g"," ","c","h","a","l","l","e","n","g","e">>,
       <<"t","r","e","n","d","i","n","g"," ","t","o","p","i","c"," ","c","a","m","p","a","i","g","n">>>>,
     <<<<"b","r","a","n","d","e","d"," ","c","o","n","t","e","n","t">>,
       <<"s","p","o","n","s","o","r","e","d"," ","o","r"," ","p","r","o","m","o","t","i","o","n","a","l"," ","m","a","t","e","r","i","a","l">>>>,
     <<<<"a","u","t","o","-","m","o","d">>,
       <<"a","u","t","o","m","a","t","e","d"," ","c","o","n","t","e","n","t"," ","m","o","d","e","r","a","t","i","o","n">>>>,
     <<<<"h","u","m","a","n"," ","r","e","v","i","e","w">>,
       <<"m","a","n","u","a","l"," ","c","o","n","t","e","n","t"," ","e","v","a","l","u","a","t","i","o","n">>>>,
     <<<<"a","p","p","e","a","l"," ","p","r","o","c","e","s","s">>,
       <<"u","s","e","r"," ","c","h","a","l","l","e","n","g","e"," ","t","o"," ","m","o","d","e","r","a","t","i","o","n"," ","d","e","c","i","s","i","o","n">>>>,
     <<<<"s","t","r","i","k","e"," ","s","y","s","t","e","m">>,
       <<"p","r","o","g","r","e","s","s","i","v","e"," ","p","e","n","a","l","t","y"," ","f","r","a","m","e","w","o","r","k">>>>,
     <<<<"c","o","m","m","u","n","i","t","y"," ","g","u","i","d","e","l","i","n","e","s">>,
       <<"p","l","a","t","f","o","r","m"," ","u","s","a","g","e"," ","r","u","l","e","s">>>>,
     <<<<"t","e","r","m","s"," ","o","f"," ","s","e","r","v","i","c","e">>,
       <<"l","e","g","a","l"," ","a","g","r","e","e","m","e","n","t"," ","f","o","r"," ","p","l","a","t","f","o","r","m"," ","u","s","e">>>>,
     <<<<"c","o","n","t","e","n","t"," ","p","o","l","i","c","y">>,
       <<"r","u","l","e","s"," ","g","o","v","e","r","n","i","n","g"," ","a","c","c","e","p","t","a","b","l","e"," ","c","o","n","t","e","n","t">>>> >>

\* JargonResolver._find_acronyms: the fixed acronym table
acronym_map ==
  << <<<<"A","I">>,
       <<"a","r","t","i","f","i","c","i","a","l"," ","i","n","t","e","l","l","i","g","e","n","c","e">>>>,
     <<<<"M","L">>,
       <<"m","a","c","h","i","n","e"," ","l","e","a","r","n","i","n","g">>>>,
     <<<<"N","L","P">>,
       <<"n","a","t","u","r","a","l"," ","l","a","n","g","u","a","g","e"," ","p","r","o","c","e","s","s","i","n","g">>>>,
     <<<<"A","P","I">>,
       <<"a","p","p","l","i","c","a","t","i","o","n"," ","p","r","o","g","r","a","m","m","i","n","g"," ","i","n","t","e","r","f","a","c","e">>>>,
     <<<<"S","D","K">>,
       <<"s","o","f","t","w","a","r","e"," ","d","e","v","e","l","o","p","m","e","n","t"," ","k","i","t">>>>,
     <<<<"C","D","N">>,
       <<"c","o","n","t","e","n","t"," ","d","e","l","i","v","e","r","y"," ","n","e","t","w","o","r","k">>>>,
     <<<<"D","N","S">>,
       <<"d","o","m","a","i","n"," ","n","a","m","e"," ","s","y","s","t","e","m">>>>,
     <<<<"S","S","L">>,
       <<"s","e","c","u","r","e"," ","s","o","c","k","e","t","s"," ","l","a","y","e","r">>>>,
     <<<<"H","T","T","P","S">>,
       <<"h","y","p","e","r","t","e","x","t"," ","t","r","a","n","s","f","e","r"," ","p","r","o","t","o","c","o","l"," ","s","e","c","u","r","e">>>>,
     <<<<"J","S","O","N">>,
       <<"j","a","v","a","s","c","r","i","p","t"," ","o","b","j","e","c","t"," ","n","o","t","a","t","i","o","n">>>>,
     <<<<"X","M","L">>,
       <<"e","x","t","e","n","s","i","b","l","e"," ","m","a","r","k","u","p"," ","l","a","n","g","u","a","g","e">>>>,
     <<<<"S","Q","L">>,
       <<"s","t","r","u","c","t","u","r","e","d"," ","q","u","e","r","y"," ","l","a","n","g","u","a","g","e">>>>,
     <<<<"N","o","S","Q","L">>,
       <<"n","o","t"," ","o","n","l","y"," ","s","t","r","u","c","t","u","r","e","d"," ","q","u","e","r","y"," ","l","a","n","g","u","a","g","e">>>>,
     <<<<"R","E","S","T">>,
       <<"r","e","p","r","e","s","e","n","t","a","t","i","o","n","a","l"," ","s","t","a","t","e"," ","t","r","a","n","s","f","e","r">>>>,
     <<<<"C","R","U","D">>,
       <<"c","r","e","a","t","e"," ","r","e","a","d"," ","u","p","d","a","t","e"," ","d","e","l","e","t","e">>>>,
     <<<<"Q","R">>,
       <<"q","u","i","c","k"," ","r","e","s","p","o","n","s","e">>>>,
     <<<<"I","P">>,
       <<"i","n","t","e","r","n","e","t"," ","p","r","o","t","o","c","o","l">>>>,
     <<<<"T","C","P">>,
       <<"t","r","a","n","s","m","i","s","s","i","o","n"," ","c","o","n","t","r","o","l"," ","p","r","o","t","o","c","o","l">>>>,
     <<<<"H","T","T","P">>,
       <<"h","y","p","e","r","t","e","x","t"," ","t","r","a","n","s","f","e","r"," ","p","r","o","t","o","c","o","l">>>>,
     <<<<"F","T","P">>,
       <<"f","i","l","e"," ","t","r","a","n","s","f","e","r"," ","p","r","o","t","o","c","o","l">>>> >>

\* JargonResolver._find_compound_terms: the fixed compound-phrase table
compound_terms ==
  << <<<<"m","a","c","h","i","n","e"," ","l","e","a","r","n","i","n","g"," ","m","o","d","e","l">>,
       <<"a","l","g","o","r","i","t","h","m"," ","t","h","a","t"," ","l","e","a","r","n","s"," ","f","r","o","m"," ","d","a","t","a"," ","t","o"," ","m","a","k","e"," ","p","r","e","d","i","c","t","i","o","n","s">>>>,
     <<<<"c","o","n","t","e","n","t"," ","m","o","d","e","r","a","t","i","o","n"," ","p","i","p","e","l","i","n","e">>,
       <<"a","u","t","o","m","a","t","e","d"," ","s","y","s","t","e","m"," ","f","o","r"," ","r","e","v","i","e","w","i","n","g"," ","a","n","d"," ","f","i","l","t","e","r","i","n","g"," ","c","o","n","t","e","n","t">>>>,
     <<<<"u","s","e","r"," ","b","e","h","a","v","i","o","r"," ","a","n","a","l","y","t","i","c","s">>,
       <<"a","n","a","l","y","s","i","s"," ","o","f"," ","u","s","e","r"," ","i","n","t","e","r","a","c","t","i","o","n"," ","p","a","t","t","e","r","n","s">>>>,
     <<<<"r","e","a","l","-","t","i","m","e"," ","p","r","o","c","e","s","s","i","n","g">>,
       <<"i","m","m","e","d","i","a","t","e"," ","d","a","t","a"," ","p","r","o","c","e","s","s","i","n","g"," ","w","i","t","h","o","u","t"," ","d","e","l","a","y">>>>,
     <<<<"d","i","s","t","r","i","b","u","t","e","d"," ","s","y","s","t","e","m">>,
       <<"s","o","f","t","w","a","r","e"," ","r","u","n","n","i","n","g"," ","a","c","r","o","s","s"," ","m","u","l","t","i","p","l","e"," ","c","o","n","n","e","c","t","e","d"," ","c","o","m","p","u","t","e","r","s">>>>,
     <<<<"m","i","c","r","o","s","e","r","v","i","c","e"," ","a","r","c","h","i","t","e","c","t","u","r","e">>,
       <<"s","o","f","t","w","a","r","e"," ","d","e","s","i","g","n"," ","u","s","i","n","g"," ","s","m","a","l","l"," ","i","n","d","e","p","e","n","d","e","n","t"," ","s","e","r","v","i","c","e","s">>>>,
     <<<<"c","l","o","u","d"," ","i","n","f","r","a","s","t","r","u","c","t","u","r","e">>,
       <<"c","o","m","p","u","t","i","n","g"," ","r","e","s","o","u","r","c","e","s"," ","p","r","o","v","i","d","e","d"," ","o","v","e","r"," ","t","h","e"," ","i","n","t","e","r","n","e","t">>>>,
     <<<<"d","a","t","a"," ","p","i","p","e","l","i","n","e">>,
       <<"s","e","r","i","e","s"," ","o","f"," ","p","r","o","c","e","s","s","e","s"," ","f","o","r"," ","m","o","v","i","n","g"," ","a","n","d"," ","t","r","a","n","s","f","o","r","m","i","n","g"," ","d","a","t","a">>>>,
     <<<<"f","e","a","t","u","r","e"," ","e","n","g","i","n","e","e","r","i","n","g">>,
       <<"p","r","o","c","e","s","s"," ","o","f"," ","s","e","l","e","c","t","i","n","g"," ","a","n","d"," ","t","r","a","n","s","f","o","r","m","i","n","g"," ","d","a","t","a"," ","f","o","r"," ","m","a","c","h","i","n","e"," ","l","e","a","r","n","i","n","g">>>>,
     <<<<"a","/","b"," ","t","e","s","t","i","n","g"," ","f","r","a","m","e","w","o","r","k">>,
       <<"s","y","s","t","e","m"," ","f","o","r"," ","c","o","m","p","a","r","i","n","g"," ","d","i","f","f","e","r","e","n","t"," ","v","e","r","s","i","o","n","s"," ","o","f"," ","f","e","a","t","u","r","e","s">>>>,
     <<<<"r","e","c","o","m","m","e","n","d","a","t","i","o","n"," ","a","l","g","o","r","i","t","h","m">>,
       <<"s","y","s","t","e","m"," ","t","h","a","t"," ","s","u","g","g","e","s","t","s"," ","c","o","n","t","e","n","t"," ","b","a","s","e","d"," ","o","n"," ","u","s","e","r"," ","p","r","e","f","e","r","e","n","c","e","s">>>>,
     <<<<"c","o","n","t","e","n","t"," ","d","e","l","i","v","e","r","y"," ","n","e","t","w","o","r","k">>,
       <<"d","i","s","t","r","i","b","u","t","e","d"," ","s","y","s","t","e","m"," ","f","o","r"," ","d","e","l","i","v","e","r","i","n","g"," ","w","e","b"," ","c","o","n","t","e","n","t"," ","e","f","f","i","c","i","e","n","t","l","y">>>>,
     <<<<"l","o","a","d"," ","b","a","l","a","n","c","i","n","g">>,
       <<"d","i","s","t","r","i","b","u","t","i","n","g"," ","w","o","r","k","l","o","a","d"," ","a","c","r","o","s","s"," ","m","u","l","t","i","p","l","e"," ","c","o","m","p","u","t","i","n","g"," ","r","e","s","o","u","r","c","e","s">>>>,
     <<<<"a","u","t","o","-","s","c","a","l","i","n","g">>,
       <<"a","u","t","o","m","a","t","i","c","a","l","l","y"," ","a","d","j","u","s","t","i","n","g"," ","c","o","m","p","u","t","i","n","g"," ","r","e","s","o","u","r","c","e","s"," ","b","a","s","e","d"," ","o","n"," ","d","e","m","a","n","d">>>>,
     <<<<"f","a","u","l","t"," ","t","o","l","e","r","a","n","c","e">>,
       <<"s","y","s","t","e","m"," ","a","b","i","l","i","t","y"," ","t","o"," ","c","o","n","t","i","n","u","e"," ","o","p","e","r","a","t","i","n","g"," ","d","e","s","p","i","t","e"," ","f","a","i","l","u","r","e","s">>>>,
     <<<<"d","a","t","a"," ","g","o","v","e","r","n","a","n","c","e">>,
       <<"m","a","n","a","g","e","m","e","n","t"," ","o","f"," ","d","a","t","a"," ","a","v","a","i","l","a","b","i","l","i","t","y",","," ","u","s","a","b","i","l","i","t","y",","," ","i","n","t","e","g","r","i","t","y"," ","a","n","d"," ","s","e","c","u","r","i","t","y">>>> >>

\* ComplianceAnalyzer.risk_keywords: category -> keywords, in insertion order
risk_keywords ==
  << <<"child_safety", <<<<"m","i","n","o","r">>,
         <<"c","h","i","l","d">>,
         <<"y","o","u","t","h">>,
         <<"t","e","e","n">>,
         <<"a","g","e"," ","v","e","r","i","f","i","c","a","t","i","o","n">>,
         <<"p","a","r","e","n","t","a","l">>,
         <<"g","u","a","r","d","i","a","n">>,
         <<"c","u","r","f","e","w">>>>>>,
     <<"data_privacy", <<<<"p","e","r","s","o","n","a","l"," ","d","a","t","a">>,
         <<"u","s","e","r"," ","d","a","t","a">>,
         <<"t","r","a","c","k","i","n","g">>,
         <<"p","r","o","f","i","l","i","n","g">>,
         <<"a","n","a","l","y","t","i","c","s">>,
         <<"t","a","r","g","e","t","i","n","g">>>>>>,
     <<"content_moderation", <<<<"h","a","r","m","f","u","l"," ","c","o","n","t","e","n","t">>,
         <<"v","i","o","l","e","n","c","e">>,
         <<"h","a","t","e">>,
         <<"m","i","s","i","n","f","o","r","m","a","t","i","o","n">>,
         <<"c","o","n","t","e","n","t"," ","r","e","m","o","v","a","l">>>>>>,
     <<"algorithmic_transparency", <<<<"r","e","c","o","m","m","e","n","d","a","t","i","o","n">>,
         <<"a","l","g","o","r","i","t","h","m">>,
         <<"p","e","r","s","o","n","a","l","i","z","a","t","i","o","n">>,
         <<"f","e","e","d">>,
         <<"r","a","n","k","i","n","g">>>>>>,
     <<"data_localization", <<<<"d","a","t","a"," ","s","t","o","r","a","g","e">>,
         <<"s","e","r","v","e","r"," ","l","o","c","a","t","i","o","n">>,
         <<"c","r","o","s","s","-","b","o","r","d","e","r">>,
         <<"d","a","t","a"," ","t","r","a","n","s","f","e","r">>>>>> >>

\* ComplianceAnalyzer.risk_weights: category -> weight
risk_weights ==
  ("child_safety" :> 40) @@ ("data_privacy" :> 30)
  @@ ("content_moderation" :> 25) @@ ("user_verification" :> 20) @@ ("algorithmic_transparency" :> 15) @@ ("data_localization" :> 10)
  @@ ("age_verification" :> 35) @@ ("content_blocking" :> 20) @@ ("parental_controls" :> 30)

\* RegulationKnowledgeBase._load_regulation_data: the records, in corpus order
\* (the fields the analysis reads: id, name, jurisdiction, key_obligations)
LoadRegulationData ==
  << [id |-> "eu_dsa_2022",
      name |-> "EU Digital Services Act (DSA)",
      jurisdiction |-> "European Union",
      key_obligations |-> <<"Content moderation transparency reports", "Risk assessment for systemic risks", "User notification of content decisions", "Appeals process for content moderation", "Age-appropriate design for minors">>],
     [id |-> "ca_ccpa_2020",
      name |-> "California Consumer Privacy Act (CCPA)",
      jurisdiction |-> "California, US",
      key_obligations |-> <<"Privacy policy disclosures", "Right to know data collection", "Right to delete personal information", "Right to opt-out of data sale", "Non-discrimination for privacy rights exercise">>],
     [id |-> "fl_social_media_2021",
      name |-> "Florida Social Media Law",
      jurisdiction |-> "Florida, US",
      key_obligations |-> <<"Cannot deplatform political candidates", "Content moderation standards disclosure", "Consistent application of community standards", "User notification of content actions">>],
     [id |-> "ut_social_media_2023",
      name |-> "Utah Social Media Regulation Act",
      jurisdiction |-> "Utah, US",
      key_obligations |-> <<"Age verification for users under 18", "Parental consent for minor accounts", "Curfew features (10pm-6am restriction)", "Prohibit certain addictive features for minors", "Default privacy settings for minors">>],
     [id |-> "us_coppa_1998",
      name |-> "Children's Online Privacy Protection Act (COPPA)",
      jurisdiction |-> "United States",
      key_obligations |-> <<"Parental consent for data collection under 13", "Privacy notice for parents", "Limited collection and use of children's data", "No behavioral advertising to children", "Data deletion upon parent request">>],
     [id |-> "us_ncmec_reporting",
      name |-> "NCMEC Reporting Requirements",
      jurisdiction |-> "United States",
      key_obligations |-> <<"Report known CSAM to NCMEC", "Preserve reported content", "Provide technical assistance to law enforcement", "Maintain reporting procedures">>],
     [id |-> "uk_age_appropriate_design",
      name |-> "UK Age Appropriate Design Code",
      jurisdiction |-> "United Kingdom",
      key_obligations |-> <<"Age-appropriate design by default", "Data protection impact assessments", "High privacy settings by default for children", "Minimize data collection from children", "No profiling or automated decision-making for children">>],
     [id |-> "gdpr_2018",
      name |-> "General Data Protection Regulation (GDPR)",
      jurisdiction |-> "European Union",
      key_obligations |-> <<"Lawful basis for processing", "Data subject consent", "Right to be forgotten", "Data portability", "Privacy by design and default">>] >>

\* The characters of every name, jurisdiction and region string of the model
Chars ==
  ("Brazil" :> <<"B","r","a","z","i","l">>)
  @@ ("California Consumer Privacy Act (CCPA)" :> <<"C","a","l","i","f","o","r","n","i","a"," ","C","o","n","s","u","m","e","r"," ","P","r","i","v","a","c","y"," ","A","c","t"," ","(","C","C","P","A",")">>)
  @@ ("California, US" :> <<"C","a","l","i","f","o","r","n","i","a",","," ","U","S">>)
  @@ ("Children's Online Privacy Protection Act (COPPA)" :> <<"C","h","i","l","d","r","e","n","'","s"," ","O","n","l","i","n","e"," ","P","r","i","v","a","c","y"," ","P","r","o","t","e","c","t","i","o","n"," ","A","c","t"," ","(","C","O","P","P","A",")">>)
  @@ ("EU Digital Services Act (DSA)" :> <<"E","U"," ","D","i","g","i","t","a","l"," ","S","e","r","v","i","c","e","s"," ","A","c","t"," ","(","D","S","A",")">>)
  @@ ("European Union" :> <<"E","u","r","o","p","e","a","n"," ","U","n","i","o","n">>)
  @@ ("Florida Social Media Law" :> <<"F","l","o","r","i","d","a"," ","S","o","c","i","a","l"," ","M","e","d","i","a"," ","L","a","w">>)
  @@ ("Florida, US" :> <<"F","l","o","r","i","d","a",","," ","U","S">>)
  @@ ("General Data Protection Regulation (GDPR)" :> <<"G","e","n","e","r","a","l"," ","D","a","t","a"," ","P","r","o","t","e","c","t","i","o","n"," ","R","e","g","u","l","a","t","i","o","n"," ","(","G","D","P","R",")">>)
  @@ ("Global" :> <<"G","l","o","b","a","l">>)
  @@ ("NCMEC Reporting Requirements" :> <<"N","C","M","E","C"," ","R","e","p","o","r","t","i","n","g"," ","R","e","q","u","i","r","e","m","e","n","t","s">>)
  @@ ("UK Age Appropriate Design Code" :> <<"U","K"," ","A","g","e"," ","A","p","p","r","o","p","r","i","a","t","e"," ","D","e","s","i","g","n"," ","C","o","d","e">>)
  @@ ("United Kingdom" :> <<"U","n","i","t","e","d"," ","K","i","n","g","d","o","m">>)
  @@ ("United States" :> <<"U","n","i","t","e","d"," ","S","t","a","t","e","s">>)
  @@ ("Utah Social Media Regulation Act" :> <<"U","t","a","h"," ","S","o","c","i","a","l"," ","M","e","d","i","a"," ","R","e","g","u","l","a","t","i","o","n"," ","A","c","t">>)
  @@ ("Utah, US" :> <<"U","t","a","h",","," ","U","S">>)
  @@ ("california" :> <<"c","a","l","i","f","o","r","n","i","a">>)

\* RegulationKnowledgeBase.find_relevant_regulations: threshold=0.1, in hundredths
threshold == 10

\* RegulationKnowledgeBase.find_relevant_regulations: max_results=5
max_results == 5

(***************************************************************************)
(* Outcomes: a Python call either returns a value or raises                *)
(***************************************************************************)
Return(v) == [ok |-> TRUE, value |-> v]

Raise(e) == [ok |-> FALSE, error |-> e]

(***************************************************************************)
(* JSON values, as json.loads gives them                                   *)
(***************************************************************************)
JBool(b) == [t |-> "bool", v |-> b]

JInt(n) == [t |-> "int", v |-> n]

JStr(s) == [t |-> "str", v |-> s]

JList(l) == [t |-> "list", v |-> l]

JNull == [t |-> "null"]

\* bool(x) of a decoded JSON value
Truthy(x) ==
  CASE x.t = "bool" -> x.v
    [] x.t = "int"  -> x.v # 0
    [] x.t = "str"  -> x.v # ""
    [] x.t = "list" -> x.v # <<>>
    [] OTHER        -> FALSE

\* a dictionary scan that looks for the term anywhere in the text
DictionaryMatches_Substring(dict, text_lower) ==
  SelectSeq(dict, LAMBDA e : Contains(text_lower, Lower(e[1])))

(***************************************************************************)
(* JargonResolver                                                          *)
(***************************************************************************)
\* the dictionary loop of resolve_jargon: the entries whose term occurs in
\* the lower-cased text between word boundaries, in dictionary order
DictionaryMatches(dict, text_lower) ==
  SelectSeq(dict, LAMBDA e : SearchWord(text_lower, Lower(e[1])))

\* a match of r'\b[A-Z]{2,6}\b' starts at position i of text and has length n
AcronymAt(text, i, n) ==
  /\ i + n - 1 <= Len(text)
  /\ \A j \in i..(i + n - 1) : text[j] \in UpperChars
  /\ WordBoundary(text, i)
  /\ WordBoundary(text, i + n)

\* re.findall(r'\b[A-Z]{2,6}\b', text): the matches, left to right
AcronymTokens(text) ==
  LET starts == SelectSeq([i \in 1..Len(text) |-> i],
                          LAMBDA i : \E n \in 2..6 : AcronymAt(text, i, n))
  IN  [k \in DOMAIN starts |->
         LET n == CHOOSE m \in 2..6 : AcronymAt(text, starts[k], m)
         IN  SubSeq(text, starts[k], starts[k] + n - 1)]

RECURSIVE AcronymsOf(_, _)
AcronymsOf(matches, found) ==
  IF matches = <<>> THEN found
  ELSE AcronymsOf(Tail(matches),
         IF Head(matches) \in DictKeys(acronym_map)
         THEN DictSet(found, Head(matches), DictGet(acronym_map, Head(matches)))
         ELSE found)

\* JargonResolver._find_acronyms
FindAcronyms(text) == AcronymsOf(AcronymTokens(text), <<>>)

\* JargonResolver._find_compound_terms
FindCompoundTerms(text) ==
  LET text_lower == Lower(text)
  IN  SelectSeq(compound_terms, LAMBDA e : Contains(text_lower, Lower(e[1])))

\* JargonResolver.resolve_jargon; fault: an exception inside its try block
ResolveJargon(dict, text, fault) ==
  IF fault THEN <<>>
  ELSE DictUpdate(DictUpdate(DictionaryMatches(dict, Lower(text)),
                             FindAcronyms(text)),
                  FindCompoundTerms(text))

(***************************************************************************)
(* ComplianceAnalyzer._apply_jargon_resolution                             *)
(***************************************************************************)
\* the escapes a replacement template turns into one character
TemplateEscapes ==
  ("n" :> "\n") @@ ("t" :> "\t") @@ ("r" :> "\r") @@ ("f" :> "\f")
  @@ ("a" :> "BEL") @@ ("b" :> "BS") @@ ("v" :> "VT") @@ ("\\" :> "\\")

\* the positions from i on where s holds c, and the first of them (0: none)
NextAt(s, c, i) ==
  LET at == {p \in i..Len(s) : s[p] = c}
  IN  IF at = {} THEN 0 ELSE CHOOSE p \in at : \A r \in at : p <= r

\* the re module's parse of a replacement template from position i on: the
\* literal text it stands for, or re.error with its message (a bad escape,
\* or a group reference: the pattern has no group).  \g<0>, the whole match,
\* is left out: no text of the model holds \g.
RECURSIVE ExpandTemplate(_, _)
ExpandTemplate(tpl, i) ==
  LET p == NextAt(tpl, "\\", i)
  IN  IF p = 0 THEN Return(SubSeq(tpl, i, Len(tpl)))
      ELSE IF p = Len(tpl)
      THEN Raise("bad escape (end of pattern) at position " \o ToString(p - 1))
      ELSE LET c    == tpl[p + 1]
               rest == ExpandTemplate(tpl, p + 2)
               emit(x) == IF rest.ok
                          THEN Return(SubSeq(tpl, i, p - 1) \o x \o rest.value)
                          ELSE rest
           IN  IF c \in DOMAIN TemplateEscapes THEN emit(<<TemplateEscapes[c]>>)
               ELSE IF c = "0" THEN emit(<<"NUL">>)
               ELSE IF c \in DigitChars
               THEN Raise("invalid group reference " \o c \o " at position " \o ToString(p))
               ELSE IF c = "g" THEN Raise("missing < at position " \o ToString(p + 1))
               ELSE IF c \in UpperChars \cup Range(LowerAlpha)
               THEN Raise("bad escape \\" \o c \o " at position " \o ToString(p - 1))
               ELSE emit(<<"\\", c>>)

\* the first position from i on where pattern_lower occurs in text_lower (0: none)
NextMatch(text_lower, pattern_lower, i) ==
  LET at == {p \in i..(Len(text_lower) - Len(pattern_lower) + 1) :
               StartsAt(text_lower, pattern_lower, p)}
  IN  IF at = {} THEN 0 ELSE CHOOSE p \in at : \A r \in at : p <= r

\* pattern.sub(repl, text) for a literal, non-empty pattern matched ignoring
\* case: every non-overlapping occurrence from position i on, left to right,
\* becomes repl
RECURSIVE SubIgnoreCase(_, _, _, _, _)
SubIgnoreCase(text, text_lower, pattern_lower, repl, i) ==
  LET p == NextMatch(text_lower, pattern_lower, i)
  IN  IF p = 0 THEN SubSeq(text, i, Len(text))
      ELSE SubSeq(text, i, p - 1) \o repl
           \o SubIgnoreCase(text, text_lower, pattern_lower, repl, p + Len(pattern_lower))

RECURSIVE ApplyJargonResolution(_, _)
ApplyJargonResolution(text, jargon_map) ==
  IF jargon_map = <<>> THEN Return(text)
  ELSE LET jargon  == jargon_map[1][1]
           meaning == jargon_map[1][2]
           tpl     == ExpandTemplate(jargon \o <<" ", "(">> \o meaning \o <<")">>, 1)
       IN  IF ~tpl.ok THEN tpl
           ELSE ApplyJargonResolution(
                  SubIgnoreCase(text, Lower(text), Lower(jargon), tpl.value, 1), Tail(jargon_map))

(***************************************************************************)
(* RegulationKnowledgeBase                                                 *)
(***************************************************************************)
\* a selection that wants the similarity strictly above the threshold
RelevantIndices_Strict(similarities, thr) ==
  SelectSeq([i \in DOMAIN similarities |-> <<i, similarities[i]>>],
            LAMBDA p : p[2] > thr)

\* the (index, similarity) pairs at or above the threshold, in corpus order
RelevantIndices(similarities, thr) ==
  SelectSeq([i \in DOMAIN similarities |-> <<i, similarities[i]>>],
            LAMBDA p : p[2] >= thr)

\* a sort by ascending similarity
RECURSIVE SortBySimilarity_Ascending(_)
SortBySimilarity_Ascending(pairs) ==
  IF pairs = <<>> THEN <<>>
  ELSE LET least == CHOOSE i \in DOMAIN pairs :
                      /\ \A j \in DOMAIN pairs : pairs[j][2] >= pairs[i][2]
                      /\ \A j \in 1..(i - 1) : pairs[j][2] > pairs[i][2]
       IN  <<pairs[least]>> \o
           SortBySimilarity_Ascending(SubSeq(pairs, 1, least - 1)
                                      \o SubSeq(pairs, least + 1, Len(pairs)))

\* list.sort(key=lambda x: x[1], reverse=True): stable, descending
RECURSIVE SortBySimilarity(_)
SortBySimilarity(pairs) ==
  IF pairs = <<>> THEN <<>>
  ELSE LET best == CHOOSE i \in DOMAIN pairs :
                     /\ \A j \in DOMAIN pairs : pairs[j][2] <= pairs[i][2]
                     /\ \A j \in 1..(i - 1) : pairs[j][2] < pairs[i][2]
       IN  <<pairs[best]>> \o
           SortBySimilarity(SubSeq(pairs, 1, best - 1) \o SubSeq(pairs, best + 1, Len(pairs)))

\* s[:n]
Take(s, n) == SubSeq(s, 1, IF Len(s) < n THEN Len(s) ELSE n)

\* reg = self.regulations[idx].copy(); reg['similarity_score'] = similarity
WithSimilarity(reg, similarity) ==
  [id |-> reg.id, name |-> reg.name, jurisdiction |-> reg.jurisdiction,
   key_obligations |-> reg.key_obligations, similarity_score |-> similarity]

\* RegulationKnowledgeBase.find_relevant_regulations; search is what its try
\* block meets: an exception, or the cosine similarities of the query to the
\* records
FindRelevantRegulations(regs, built, search) ==
  IF ~built THEN <<>>
  ELSE IF search.kind = "raise" THEN <<>>
  ELSE LET top == Take(SortBySimilarity(RelevantIndices(search.similarities, threshold)),
                       max_results)
       IN  [n \in DOMAIN top |-> WithSimilarity(regs[top[n][1]], top[n][2])]

\* a search that writes the score into the stored record itself
RegulationsAfterFind_InPlace(regs, built, search) ==
  IF ~built \/ search.kind # "return" THEN regs
  ELSE LET top == Take(SortBySimilarity(RelevantIndices(search.similarities, threshold)),
                       max_results)
       IN  [i \in DOMAIN regs |->
              IF \E n \in DOMAIN top : top[n][1] = i
              THEN WithSimilarity(regs[i],
                     search.similarities[i])
              ELSE regs[i]]

\* a search that sorts the stored records themselves by the similarities
RegulationsAfterFind_RankedInPlace(regs, built, search) ==
  IF ~built \/ search.kind # "return" THEN regs
  ELSE LET order == SortBySimilarity([i \in DOMAIN regs |-> <<i, search.similarities[i]>>])
       IN  [n \in DOMAIN regs |-> regs[order[n][1]]]

\* self.regulations after find_relevant_regulations: the score is written to
\* reg, the dict.copy() of the stored record, and nothing else is assigned
RegulationsAfterFind(regs, built, search) == regs

(***************************************************************************)
(* The search index: TfidfVectorizer and cosine_similarity                 *)
(***************************************************************************)
\* regulation_texts of _build_search_index: for each record the
\* combined_text f"{name} {description} {obligations} {scope}", as the
\* tokens the vectorizer's analyzer takes from it (lower case, runs of two or
\* more word characters), part by part
RegulationTextParts ==
  <<
     [name |-> <<"eu", "digital", "services", "act", "dsa">>,
      description |-> <<"regulation", "on", "digital", "services", "content", "moderation", "and",
        "platform", "accountability", "requires", "risk", "assessment", "for", "large",
        "platforms", "and", "transparency", "in", "content", "moderation">>,
      key_obligations |-> <<"content", "moderation", "transparency", "reports", "risk", "assessment", "for",
        "systemic", "risks", "user", "notification", "of", "content", "decisions",
        "appeals", "process", "for", "content", "moderation", "age", "appropriate",
        "design", "for", "minors">>,
      scope |-> <<"content", "moderation", "recommendation", "systems", "user", "safety",
        "algorithmic", "transparency", "harmful", "content", "removal">>],
     [name |-> <<"california", "consumer", "privacy", "act", "ccpa">>,
      description |-> <<"privacy", "law", "giving", "california", "residents", "rights", "over",
        "their", "personal", "information", "including", "right", "to", "know",
        "delete", "and", "opt", "out", "of", "sale">>,
      key_obligations |-> <<"privacy", "policy", "disclosures", "right", "to", "know", "data", "collection",
        "right", "to", "delete", "personal", "information", "right", "to", "opt", "out",
        "of", "data", "sale", "non", "discrimination", "for", "privacy", "rights",
        "exercise">>,
      scope |-> <<"personal", "data", "collection", "data", "sharing", "user", "profiling",
        "targeted", "advertising", "data", "analytics">>],
     [name |-> <<"florida", "social", "media", "law">>,
      description |-> <<"law", "restricting", "social", "media", "platforms", "from", "deplatforming",
        "political", "candidates", "and", "requiring", "disclosure", "of", "content",
        "moderation", "practices">>,
      key_obligations |-> <<"cannot", "deplatform", "political", "candidates", "content", "moderation",
        "standards", "disclosure", "consistent", "application", "of", "community",
        "standards", "user", "notification", "of", "content", "actions">>,
      scope |-> <<"content", "moderation", "political", "content", "deplatforming", "community",
        "standards">>],
     [name |-> <<"utah", "social", "media", "regulation", "act">>,
      description |-> <<"law", "requiring", "age", "verification", "and", "parental", "consent", "for",
        "minors", "restricting", "certain", "features", "for", "youth", "users">>,
      key_obligations |-> <<"age", "verification", "for", "users", "under", "18", "parental", "consent",
        "for", "minor", "accounts", "curfew", "features", "10pm", "6am", "restriction",
        "prohibit", "certain", "addictive", "features", "for", "minors", "default",
        "privacy", "settings", "for", "minors">>,
      scope |-> <<"age", "verification", "minors", "protection", "parental", "controls", "curfew",
        "enforcement", "addictive", "design", "features">>],
     [name |-> <<"children", "online", "privacy", "protection", "act", "coppa">>,
      description |-> <<"federal", "law", "protecting", "privacy", "of", "children", "under", "13",
        "requiring", "parental", "consent", "for", "data", "collection">>,
      key_obligations |-> <<"parental", "consent", "for", "data", "collection", "under", "13", "privacy",
        "notice", "for", "parents", "limited", "collection", "and", "use", "of",
        "children", "data", "no", "behavioral", "advertising", "to", "children", "data",
        "deletion", "upon", "parent", "request">>,
      scope |-> <<"children", "under", "13", "parental", "consent", "data", "collection",
        "behavioral", "advertising", "age", "appropriate", "features">>],
     [name |-> <<"ncmec", "reporting", "requirements">>,
      description |-> <<"federal", "law", "requiring", "electronic", "service", "providers", "to",
        "report", "child", "sexual", "abuse", "material", "csam", "to", "ncmec">>,
      key_obligations |-> <<"report", "known", "csam", "to", "ncmec", "preserve", "reported", "content",
        "provide", "technical", "assistance", "to", "law", "enforcement", "maintain",
        "reporting", "procedures">>,
      scope |-> <<"child", "safety", "content", "scanning", "csam", "detection", "law",
        "enforcement", "cooperation", "content", "preservation">>],
     [name |-> <<"uk", "age", "appropriate", "design", "code">>,
      description |-> <<"code", "requiring", "age", "appropriate", "design", "for", "services",
        "likely", "to", "be", "accessed", "by", "children">>,
      key_obligations |-> <<"age", "appropriate", "design", "by", "default", "data", "protection", "impact",
        "assessments", "high", "privacy", "settings", "by", "default", "for",
        "children", "minimize", "data", "collection", "from", "children", "no",
        "profiling", "or", "automated", "decision", "making", "for", "children">>,
      scope |-> <<"age", "appropriate", "design", "children", "privacy", "default", "settings",
        "profiling", "restrictions", "data", "minimization">>],
     [name |-> <<"general", "data", "protection", "regulation", "gdpr">>,
      description |-> <<"comprehensive", "data", "protection", "regulation", "governing", "processing",
        "of", "personal", "data", "of", "eu", "residents">>,
      key_obligations |-> <<"lawful", "basis", "for", "processing", "data", "subject", "consent", "right",
        "to", "be", "forgotten", "data", "portability", "privacy", "by", "design",
        "and", "default">>,
      scope |-> <<"personal", "data", "processing", "user", "consent", "data", "transfers",
        "profiling", "automated", "decision", "making">>] >>

\* regulation_texts, whole
regulation_texts ==
  << RegulationTextParts[1].name \o RegulationTextParts[1].description
       \o RegulationTextParts[1].key_obligations \o RegulationTextParts[1].scope,
     RegulationTextParts[2].name \o RegulationTextParts[2].description
       \o RegulationTextParts[2].key_obligations \o RegulationTextParts[2].scope,
     RegulationTextParts[3].name \o RegulationTextParts[3].description
       \o RegulationTextParts[3].key_obligations \o RegulationTextParts[3].scope,
     RegulationTextParts[4].name \o RegulationTextParts[4].description
       \o RegulationTextParts[4].key_obligations \o RegulationTextParts[4].scope,
     RegulationTextParts[5].name \o RegulationTextParts[5].description
       \o RegulationTextParts[5].key_obligations \o RegulationTextParts[5].scope,
     RegulationTextParts[6].name \o RegulationTextParts[6].description
       \o RegulationTextParts[6].key_obligations \o RegulationTextParts[6].scope,
     RegulationTextParts[7].name \o RegulationTextParts[7].description
       \o RegulationTextParts[7].key_obligations \o RegulationTextParts[7].scope,
     RegulationTextParts[8].name \o RegulationTextParts[8].description
       \o RegulationTextParts[8].key_obligations \o RegulationTextParts[8].scope >>

\* TfidfVectorizer(stop_words='english'): the list is the library's; the
\* index is taken with no word stopped and with the function words of the
\* corpus stopped
StopWordLists ==
  { {},
    {"and", "be", "by", "cannot", "for", "from", "in", "no", "of", "on", "or", "out",
     "over", "their", "to", "under", "upon"} }

\* the analyzer's tokens without the stop words
Analyse(tokens, stop_words) == SelectSeq(tokens, LAMBDA w : w \notin stop_words)

\* the analysed texts the vectorizer is fitted on (max_features = 1000 keeps
\* every term: the corpus has fewer)
FitTexts(stop_words) ==
  << Analyse(regulation_texts[1], stop_words), Analyse(regulation_texts[2], stop_words),
     Analyse(regulation_texts[3], stop_words), Analyse(regulation_texts[4], stop_words),
     Analyse(regulation_texts[5], stop_words), Analyse(regulation_texts[6], stop_words),
     Analyse(regulation_texts[7], stop_words), Analyse(regulation_texts[8], stop_words) >>

\* the term frequency of t in a text
Count(tokens, t) == Cardinality({j \in DOMAIN tokens : tokens[j] = t})

\* the number of fitted texts that hold t
DocumentFrequency(t, docs) ==
  Cardinality({i \in DOMAIN docs : \E j \in DOMAIN docs[i] : docs[i][j] = t})

\* idf = ln((1 + n) / (1 + df)) + 1 for n = 8 texts and df = 1..8, in tenths
IdfTenths == <<25, 21, 18, 16, 14, 13, 11, 10>>

\* the idf of a term; a term outside the fitted vocabulary has no weight
Idf(t, docs) ==
  LET df == DocumentFrequency(t, docs)
  IN  IF df = 0 THEN 0 ELSE IdfTenths[df]

RECURSIVE SumSeq(_)
SumSeq(s) ==
  IF Len(s) = 0 THEN 0
  ELSE IF Len(s) = 1 THEN s[1]
  ELSE LET m == Len(s) \div 2
       IN  SumSeq(SubSeq(s, 1, m)) + SumSeq(SubSeq(s, m + 1, Len(s)))

\* the inner product of the tf-idf vectors of two texts: every occurrence
\* of a term in a counts the term's frequency in b times its squared idf
Dot(a, b, docs) ==
  SumSeq([k \in DOMAIN a |->
            LET w == Idf(a[k], docs) IN Count(b, a[k]) * w * w])

\* the integer part of the square root
ISqrt(n) == CHOOSE r \in 0..1200 : r * r <= n /\ n < (r + 1) * (r + 1)

\* cosine_similarity of the tf-idf vectors of a query and a text, in
\* hundredths
CosineSimilarity(q, d, docs) ==
  LET nq == ISqrt(Dot(q, q, docs))
      nd == ISqrt(Dot(d, d, docs))
  IN  IF nq = 0 \/ nd = 0 THEN 0 ELSE (100 * Dot(q, d, docs)) \div (nq * nd)

\* vectorizer.transform([text]) and cosine_similarity(text_vector,
\* regulation_vectors).flatten()
TextSimilarities(tokens, stop_words, docs) ==
  LET q == Analyse(tokens, stop_words)
  IN  << CosineSimilarity(q, docs[1], docs), CosineSimilarity(q, docs[2], docs),
         CosineSimilarity(q, docs[3], docs), CosineSimilarity(q, docs[4], docs),
         CosineSimilarity(q, docs[5], docs), CosineSimilarity(q, docs[6], docs),
         CosineSimilarity(q, docs[7], docs), CosineSimilarity(q, docs[8], docs) >>

(***************************************************************************)
(* ComplianceAnalyzer                                                      *)
(***************************************************************************)
\* any(keyword.lower() in text_lower for keyword in keywords)
AnyKeywordIn(keywords, text_lower) ==
  \E n \in DOMAIN keywords : Contains(text_lower, Lower(keywords[n]))

\* the keyword scan that _fallback_compliance_analysis, _calculate_risk_score
\* and _generate_evidence each run: the categories of risk_keywords with a
\* keyword in the lower-cased text, in table order
MatchedCategories(text) ==
  LET text_lower == Lower(text)
      hits == SelectSeq(risk_keywords, LAMBDA e : AnyKeywordIn(e[2], text_lower))
  IN  [n \in DOMAIN hits |-> hits[n][1]]

\* sorted(S) for a set of strings
RECURSIVE SortStrings(_)
SortStrings(S) ==
  IF S = {} THEN <<>>
  ELSE LET least == CHOOSE a \in S : \A b \in S \ {a} : StrLess(Chars[a], Chars[b])
       IN  <<least>> \o SortStrings(S \ {least})

Jurisdictions(regs) == {regs[n].jurisdiction : n \in DOMAIN regs}

\* ', '.join(l) for a list of strings
RECURSIVE JoinStrings(_, _)
JoinStrings(l, sep) ==
  IF l = <<>> THEN ""
  ELSE IF Len(l) = 1 THEN l[1]
  ELSE l[1] \o sep \o JoinStrings(Tail(l), sep)

\* _fallback_compliance_analysis with one confidence for both verdicts
FallbackComplianceAnalysis_OneConfidence(risk_categories, relevant_regulations) ==
  [requires_compliance |-> JBool(risk_categories # <<>> \/ relevant_regulations # <<>>),
   reasoning |-> JStr("Analysis based on keyword matching and regulation database. "),
   obligations |-> JList(<<>>),
   likely_regions |-> JList(<<>>),
   confidence |-> JInt(75)]

\* _fallback_compliance_analysis that lets only a matched regulation flag
FallbackComplianceAnalysis_RegulationsOnly(risk_categories, relevant_regulations) ==
  [requires_compliance |-> JBool(relevant_regulations # <<>>),
   reasoning |-> JStr("Analysis based on keyword matching and regulation database. "),
   obligations |-> JList(<<>>),
   likely_regions |-> JList(<<>>),
   confidence |-> JInt(IF relevant_regulations # <<>> THEN 75 ELSE 85)]

\* ComplianceAnalyzer._fallback_compliance_analysis; risk_categories is
\* MatchedCategories(text), the keyword scan of its loop.  likely_regions is
\* list(set(...)): its order is arbitrary in Python and no result shows it;
\* the model lists it sorted.
FallbackComplianceAnalysis(risk_categories, relevant_regulations) ==
  LET requires_compliance == risk_categories # <<>> \/ relevant_regulations # <<>>
      first3 == Take(relevant_regulations, 3)
      reasoning ==
        "Analysis based on keyword matching and regulation database. "
        \o (IF risk_categories # <<>>
            THEN "Detected risk categories: " \o JoinStrings(risk_categories, ", ") \o ". "
            ELSE "")
        \o (IF relevant_regulations # <<>>
            THEN "Matched against " \o ToString(Len(relevant_regulations))
                 \o " relevant regulations."
            ELSE "No specific regulations matched.")
  IN  [requires_compliance |-> JBool(requires_compliance),
       reasoning |-> JStr(reasoning),
       obligations |->
         JList([n \in DOMAIN first3 |->
                  JStr(IF first3[n].key_obligations # <<>>
                       THEN first3[n].key_obligations[1] ELSE "General compliance")]),
       likely_regions |->
         JList(IF relevant_regulations # <<>>
               THEN LET l == SortStrings(Jurisdictions(relevant_regulations))
                    IN  [n \in DOMAIN l |-> JStr(l[n])]
               ELSE <<>>),
       confidence |-> JInt(IF requires_compliance THEN 75 ELSE 85)]

\* re.search(r"\{.*\}", raw_text, re.DOTALL) and json.loads of the match.
\* raw_text is a sequence of segments: "prose" (no brace), "open" (a lone {),
\* "close" (a lone }), "garbage" ({...} that is no JSON), "empty object" ({})
\* and "object" (the text of one non-empty JSON object, value its decoding).
\* The match runs from the first { to the last }.  Gives the decoded object,
\* "empty" (the falsy {} that "if not result" replaces), "no match" or
\* "JSONDecodeError".
ParseProviderOutput(raw_text) ==
  LET braced == {"garbage", "object", "empty object"}
      opens  == {i \in DOMAIN raw_text : raw_text[i].kind \in braced \cup {"open"}}
      closes == {i \in DOMAIN raw_text : raw_text[i].kind \in braced \cup {"close"}}
      first  == CHOOSE i \in opens : \A j \in opens : i <= j
      last   == CHOOSE i \in closes : \A j \in closes : j <= i
      match  == opens # {} /\ closes # {} /\ first <= last
  IN  IF ~match THEN [kind |-> "no match"]
      ELSE IF first = last /\ raw_text[first].kind = "object"
           THEN [kind |-> "decoded", value |-> raw_text[first].value]
           ELSE IF first = last /\ raw_text[first].kind = "empty object"
           THEN [kind |-> "empty"]
           ELSE [kind |-> "JSONDecodeError"]

\* _llm_compliance_check answering a provider failure with a judgement of
\* its own instead of the fallback analysis
LlmComplianceCheck_OwnDefault(configured, risk_categories, relevant_regulations, remote) ==
  LET fallback == FallbackComplianceAnalysis(risk_categories, relevant_regulations)
      unavailable == [requires_compliance |-> JBool(FALSE),
                      reasoning |-> JStr("LLM unavailable")]
  IN  IF ~configured THEN fallback
      ELSE IF remote.kind = "raise" THEN unavailable
      ELSE LET parsed == ParseProviderOutput(remote.raw_text)
           IN  IF parsed.kind = "decoded" THEN parsed.value
               ELSE IF parsed.kind = "empty" THEN fallback ELSE unavailable

\* ComplianceAnalyzer._llm_compliance_check; remote is what generate_content
\* does when called: it raises, or returns raw_text
LlmComplianceCheck(configured, risk_categories, relevant_regulations, remote) ==
  LET fallback == FallbackComplianceAnalysis(risk_categories, relevant_regulations)
  IN  IF ~configured THEN fallback
      ELSE IF remote.kind = "raise" THEN fallback
      ELSE LET parsed == ParseProviderOutput(remote.raw_text)
           IN  IF parsed.kind = "decoded" THEN parsed.value ELSE fallback

\* dict.get(key, default) on a decoded JSON object
Get(obj, key, default) == IF key \in DOMAIN obj THEN obj[key] ELSE default

\* int(x) of a quotient num/den: truncation toward zero
TruncDiv(num, den) == IF num >= 0 THEN num \div den ELSE -((-num) \div den)

\* the confidence boost computed with math.floor in place of int()
ConfidenceBoost_Floor(confidence) ==
  CASE confidence.t = "int"  -> Return((3 * confidence.v) \div 10)
    [] confidence.t = "bool" -> Return(0)
    [] confidence.t = "null" ->
         Raise("unsupported operand type(s) for *: 'NoneType' and 'float'")
    [] OTHER -> Raise("can't multiply sequence by non-int of type 'float'")

\* a boost of a fifth of the confidence
ConfidenceBoost_Fifth(confidence) ==
  CASE confidence.t = "int"  -> Return(TruncDiv(2 * confidence.v, 10))
    [] confidence.t = "bool" -> Return(0)
    [] confidence.t = "null" ->
         Raise("unsupported operand type(s) for *: 'NoneType' and 'float'")
    [] OTHER -> Raise("can't multiply sequence by non-int of type 'float'")

\* int(confidence * 0.3), or the TypeError of a confidence that is no number
ConfidenceBoost(confidence) ==
  CASE confidence.t = "int"  -> Return(TruncDiv(3 * confidence.v, 10))
    [] confidence.t = "bool" -> Return(0)
    [] confidence.t = "null" ->
         Raise("unsupported operand type(s) for *: 'NoneType' and 'float'")
    [] OTHER -> Raise("can't multiply sequence by non-int of type 'float'")

Min(a, b) == IF a < b THEN a ELSE b

Max(a, b) == IF a > b THEN a ELSE b

\* score += self.risk_weights.get(category, 10) for each matched category
RECURSIVE SumWeights(_)
SumWeights(categories) ==
  IF categories = <<>> THEN 0
  ELSE (IF Head(categories) \in DOMAIN risk_weights
        THEN risk_weights[Head(categories)] ELSE 10)
       + SumWeights(Tail(categories))

\* the score from regulation count and severity
RECURSIVE SeverityScore(_)
SeverityScore(regs) ==
  IF regs = <<>> THEN 0
  ELSE LET reg  == Head(regs)
           name == Lower(Chars[reg.name])
       IN  (IF \/ Contains(name, <<"c","h","i","l","d">>)
               \/ Contains(name, <<"m","i","n","o","r">>)
               \/ Contains(name, <<"y","o","u","t","h">>)
            THEN 20 ELSE 0)
           + (IF Contains(Lower(Chars[reg.jurisdiction]),
                          <<"c","a","l","i","f","o","r","n","i","a">>)
              THEN 10 ELSE 0)
           + SeverityScore(Tail(regs))

RegulationScore(regs) ==
  IF regs # <<>> THEN Min(Len(regs) * 15, 30) + SeverityScore(regs) ELSE 0

\* _calculate_risk_score without the final min(max(score, 0), 100)
CalculateRiskScore_Unclamped(risk_categories, regs, llm_analysis) ==
  LET base  == SumWeights(risk_categories) + RegulationScore(regs)
      boost == IF Truthy(Get(llm_analysis, "requires_compliance", JBool(FALSE)))
               THEN ConfidenceBoost(Get(llm_analysis, "confidence", JInt(50)))
               ELSE Return(0)
  IN  IF ~boost.ok THEN boost ELSE Return(base + boost.value)

\* ComplianceAnalyzer._calculate_risk_score; risk_categories is
\* MatchedCategories(text), the keyword scan of its first loop
CalculateRiskScore(risk_categories, regs, llm_analysis) ==
  LET base  == SumWeights(risk_categories) + RegulationScore(regs)
      boost == IF Truthy(Get(llm_analysis, "requires_compliance", JBool(FALSE)))
               THEN ConfidenceBoost(Get(llm_analysis, "confidence", JInt(50)))
               ELSE Return(0)
  IN  IF ~boost.ok THEN boost
      ELSE Return(Min(Max(base + boost.value, 0), 100))

\* _determine_compliance_flag flagging on a single signal
DetermineComplianceFlag_AnySignal(llm_analysis, risk_score, regs) ==
  \/ Truthy(Get(llm_analysis, "requires_compliance", JBool(FALSE)))
  \/ risk_score >= 30
  \/ regs # <<>>

\* a decision that wants all three signals
DetermineComplianceFlag_Unanimous(llm_analysis, risk_score, regs) ==
  /\ Truthy(Get(llm_analysis, "requires_compliance", JBool(FALSE)))
  /\ risk_score >= 30
  /\ regs # <<>>

\* ComplianceAnalyzer._determine_compliance_flag
DetermineComplianceFlag(llm_analysis, risk_score, regs) ==
  LET signals ==
        (IF Truthy(Get(llm_analysis, "requires_compliance", JBool(FALSE)))
         THEN <<TRUE>> ELSE <<>>)
        \o (IF risk_score >= 30 THEN <<TRUE>> ELSE <<>>)
        \o (IF regs # <<>> THEN <<TRUE>> ELSE <<>>)
  IN  Len(signals) >= 2

\* _extract_affected_regions letting the judgement's regions replace, not
\* join, the jurisdictions of the regulations
ExtractAffectedRegions_JudgementFirst(regs, llm_analysis) ==
  IF "likely_regions" \notin DOMAIN llm_analysis
  THEN Return(SortStrings(Jurisdictions(regs)))
  ELSE LET likely == llm_analysis["likely_regions"]
       IN  IF likely.t # "list"
           THEN Raise("'NoneType' object is not iterable")
           ELSE IF likely.v = <<>>
           THEN Return(SortStrings(Jurisdictions(regs)))
           ELSE Return(SortStrings({likely.v[n].v : n \in DOMAIN likely.v}))

\* ComplianceAnalyzer._extract_affected_regions
ExtractAffectedRegions(regs, llm_analysis) ==
  IF "likely_regions" \notin DOMAIN llm_analysis
  THEN Return(SortStrings(Jurisdictions(regs)))
  ELSE LET likely == llm_analysis["likely_regions"]
       IN  IF likely.t # "list"
           THEN Raise("'NoneType' object is not iterable")
           ELSE Return(SortStrings(Jurisdictions(regs)
                                   \cup {likely.v[n].v : n \in DOMAIN likely.v}))

\* ''.join(chars): the Python string of a character sequence
RECURSIVE Str(_)
Str(cs) ==
  IF cs = <<>> THEN ""
  ELSE IF Len(cs) = 1 THEN cs[1]
  ELSE LET h == Len(cs) \div 2
       IN  Str(SubSeq(cs, 1, h)) \o Str(SubSeq(cs, h + 1, Len(cs)))

\* f"{value}" of a decoded JSON value
Format(x) ==
  CASE x.t = "int"  -> ToString(x.v)
    [] x.t = "str"  -> x.v
    [] x.t = "bool" -> IF x.v THEN "True" ELSE "False"
    [] OTHER        -> "None"

\* evidence parts whose snippet is cut from 200 characters on
EvidenceParts_CutAt200(text, risk_categories, regs, llm_analysis) ==
  LET text_snippet == IF Len(text) >= 200
                      THEN SubSeq(text, 1, 200) \o <<".", ".", ".">> ELSE text
      first3 == Take(regs, 3)
      matched_keywords == JoinStrings(risk_categories, ", ")
      reg_matches == [n \in DOMAIN first3 |->
                        first3[n].name \o " (matched keywords: " \o matched_keywords \o ")"]
  IN  <<"Feature text: " \o Str(text_snippet)>>
      \o (IF regs # <<>>
          THEN <<"Matched regulations: " \o JoinStrings(reg_matches, ", ")>> ELSE <<>>)
      \o (IF "confidence" \in DOMAIN llm_analysis
          THEN <<"Analysis confidence: " \o Format(llm_analysis["confidence"]) \o "%">>
          ELSE <<>>)

\* the parts ComplianceAnalyzer._generate_evidence collects; risk_categories
\* is MatchedCategories(text), the keyword scan of its loop
EvidenceParts(text, risk_categories, regs, llm_analysis) ==
  LET text_snippet == IF Len(text) > 200
                      THEN SubSeq(text, 1, 200) \o <<".", ".", ".">> ELSE text
      first3 == Take(regs, 3)
      matched_keywords == JoinStrings(risk_categories, ", ")
      reg_matches == [n \in DOMAIN first3 |->
                        first3[n].name \o " (matched keywords: " \o matched_keywords \o ")"]
  IN  <<"Feature text: " \o Str(text_snippet)>>
      \o (IF regs # <<>>
          THEN <<"Matched regulations: " \o JoinStrings(reg_matches, ", ")>> ELSE <<>>)
      \o (IF "confidence" \in DOMAIN llm_analysis
          THEN <<"Analysis confidence: " \o Format(llm_analysis["confidence"]) \o "%">>
          ELSE <<>>)

\* ComplianceAnalyzer._generate_evidence
GenerateEvidence(text, risk_categories, regs, llm_analysis) ==
  JoinStrings(EvidenceParts(text, risk_categories, regs, llm_analysis), " | ")

(***************************************************************************)
(* ComplianceAnalyzer.analyze_feature                                      *)
(***************************************************************************)
\* f"{title} {description} {prd} {trd}".strip()
FullText(args) ==
  Strip(args.title \o <<" ">> \o args.description \o <<" ">> \o args.prd
        \o <<" ">> \o args.trd)

\* an except branch that fails closed and drops the cause
FailOpenResult_FailClosed(e) ==
  [requires_geo_compliance |-> TRUE,
   reasoning |-> JStr("Analysis failed. Defaulting to compliance required."),
   related_regulations |-> <<>>,
   risk_score |-> 100,
   regions_affected |-> <<>>,
   evidence |-> "Error in analysis pipeline",
   jargon_resolved |-> <<>>]

\* the fallback response of the except branch
FailOpenResult(e) ==
  [requires_geo_compliance |-> FALSE,
   reasoning |-> JStr("Analysis failed: " \o e \o ". Defaulting to no compliance required."),
   related_regulations |-> <<>>,
   risk_score |-> 0,
   regions_affected |-> <<>>,
   evidence |-> "Error in analysis pipeline",
   jargon_resolved |-> <<>>]

NoJudgement == [t |-> "none"]

\* Step 1 of analyze_feature: the combined text, resolve_jargon and
\* _apply_jargon_resolution; with the annotated text goes its keyword scan,
\* which steps 3, 4 and 7 read.  fault: an exception inside resolve_jargon.
AnnotateText(dict, args, fault) ==
  LET full_text == FullText(args)
      jargon_resolved == ResolveJargon(dict, full_text, fault)
      resolved == ApplyJargonResolution(full_text, jargon_resolved)
  IN  [full_text |-> full_text,
       jargon_resolved |-> jargon_resolved,
       resolved |-> resolved,
       risk_categories |-> IF resolved.ok THEN MatchedCategories(resolved.value) ELSE <<>>]

\* The body of analyze_feature from step 2 on, with its except branch.  env
\* is what the collaborators do during the call: search (the index search of
\* find_relevant_regulations raises, or gives the cosine similarities of the
\* query to the records) and remote (the provider's behaviour).
\* Gives the returned result and the intermediate values of the call.
AnalyzeFeatureBody(annotated, regs, built, configured, env) ==
  LET resolved_text == annotated.resolved.value
      risk_categories == annotated.risk_categories
      relevant_regulations ==
        FindRelevantRegulations(regs, built, env.search)
      llm_analysis ==
        LlmComplianceCheck(configured, risk_categories, relevant_regulations, env.remote)
      risk_score == CalculateRiskScore(risk_categories, relevant_regulations, llm_analysis)
      requires_compliance ==
        DetermineComplianceFlag(llm_analysis, risk_score.value, relevant_regulations)
      regions_affected == ExtractAffectedRegions(relevant_regulations, llm_analysis)
      regulation_names == [n \in DOMAIN relevant_regulations |-> relevant_regulations[n].name]
      evidence == GenerateEvidence(resolved_text, risk_categories, relevant_regulations,
                                   llm_analysis)
      reasoning == Get(llm_analysis, "reasoning",
                       JStr("Analysis based on regulatory knowledge base matching"))
  IN  IF ~annotated.resolved.ok
      THEN [result |-> FailOpenResult(annotated.resolved.error),
            trace |-> [raised |-> "annotation", error |-> annotated.resolved.error,
                       resolved_text |-> <<>>, relevant_regulations |-> <<>>,
                       provider |-> [kind |-> "not reached"],
                       llm_analysis |-> NoJudgement]]
      ELSE IF ~risk_score.ok
      THEN [result |-> FailOpenResult(risk_score.error),
            trace |-> [raised |-> "scoring", error |-> risk_score.error,
                       resolved_text |-> resolved_text,
                       relevant_regulations |-> relevant_regulations,
                       provider |-> env.remote, llm_analysis |-> llm_analysis]]
      ELSE IF ~regions_affected.ok
      THEN [result |-> FailOpenResult(regions_affected.error),
            trace |-> [raised |-> "region extraction", error |-> regions_affected.error,
                       resolved_text |-> resolved_text,
                       relevant_regulations |-> relevant_regulations,
                       provider |-> env.remote, llm_analysis |-> llm_analysis]]
      ELSE [result |->
              [requires_geo_compliance |-> requires_compliance,
               reasoning |-> reasoning,
               related_regulations |-> regulation_names,
               risk_score |-> risk_score.value,
               regions_affected |-> regions_affected.value,
               evidence |-> evidence,
               jargon_resolved |-> annotated.jargon_resolved],
            trace |-> [raised |-> "none", error |-> "",
                       resolved_text |-> resolved_text,
                       relevant_regulations |-> relevant_regulations,
                       provider |-> env.remote, llm_analysis |-> llm_analysis]]

(***************************************************************************)
(* Inputs                                                                  *)
(***************************************************************************)
Titles ==
  { <<"V","i","d","e","o"," ","u","p","l","o","a","d">>,
    <<"T","e","e","n"," ","C","u","r","f","e","w">>,
    <<"f","y","p">> }

Descriptions ==
  { <<>>,
    <<"t","r","a","c","k","i","n","g"," ","h","a","t","e"," ","f","e","e","d">>,
    <<"K","i","d","Z","o","n","e">> }

Prds ==
  { <<>>,
    <<"a","g","e"," ","v","e","r","i","f","i","c","a","t","i","o","n">> }

Trds ==
  { <<>> }

CustomJargonPool ==
  { <<<<"K","i","d","Z","o","n","e">>,
       <<"m","i","n","o","r","s"," ","a","r","e","a",","," ","s","e","e"," ","s","p","e","c","s","\\","d","e","s","i","g","n">>>>,
    <<<<"C","u","r","f","e","w">>,
       <<"n","i","g","h","t","l","y"," ","l","o","c","k">>>> }

\* the number of custom entries add_custom_jargon may add
MaxCustom == 1

CorpusIdx == DOMAIN LoadRegulationData

\* the similarities of a query that resembles the records of hot closely,
\* those of warm just enough, and those of cold not enough
Similarities(hot, warm, cold) ==
  [i \in CorpusIdx |-> IF i \in hot THEN 30
                       ELSE IF i \in warm THEN threshold
                       ELSE IF i \in cold THEN threshold - 1 ELSE 0]

SimVectors ==
  {Similarities({}, {}, {}),
   Similarities({}, {}, {2, 4}),
   Similarities({1}, {}, {}),
   Similarities({2}, {}, {}),
   Similarities({5}, {}, {}),
   Similarities({8}, {2}, {1}),
   Similarities({1, 8}, {}, {}),
   Similarities({4, 5}, {7}, {}),
   Similarities(CorpusIdx, {}, {})}

\* what the index search does when find_relevant_regulations reaches it
SearchOutcomes ==
  {[kind |-> "raise"]} \cup {[kind |-> "return", similarities |-> s] : s \in SimVectors}

NotSearched == [kind |-> "not searched"]

Confidences == {JInt(-5), JInt(50), JInt(100), JInt(150), JStr("high")}

LikelyRegionLists == {<<JStr("Utah, US")>>, <<JStr("Brazil"), JStr("california")>>}

Judgement(rc, c, lr) ==
  [requires_compliance |-> JBool(rc), reasoning |-> JStr("Provider reasoning."),
   obligations |-> JList(<<>>), likely_regions |-> lr, confidence |-> c]

RemoteJudgements ==
  {Judgement(TRUE, c, JList(<<>>)) : c \in Confidences}
  \cup {Judgement(FALSE, c, JList(<<>>)) : c \in {JInt(50), JStr("high")}}
  \cup {Judgement(TRUE, JInt(50), JList(lr)) : lr \in LikelyRegionLists}
  \cup {Judgement(TRUE, JInt(50), JNull),
        Judgement(TRUE, JInt(100), JNull),
        [Judgement(TRUE, JInt(100), JList(<<>>)) EXCEPT !.reasoning = JNull],
        [requires_compliance |-> JBool(TRUE)],
        [reasoning |-> JStr("Provider reasoning.")]}

Prose == [kind |-> "prose"]

Object(j) == [kind |-> "object", value |-> j]

RawOutputs ==
  {<<Prose, Object(j), Prose>> : j \in RemoteJudgements}
  \cup {<<Prose>>,
        <<[kind |-> "garbage"]>>,
        <<[kind |-> "close"], Prose, [kind |-> "open"]>>,
        <<[kind |-> "empty object"]>>,
        <<Object(Judgement(TRUE, JInt(100), JList(<<>>))), [kind |-> "close"]>>,
        <<Object(Judgement(TRUE, JInt(100), JList(<<>>))), Prose,
          Object(Judgement(FALSE, JInt(50), JList(<<>>)))>>}

\* what generate_content does when _llm_compliance_check calls it
RemoteOutcomes ==
  {[kind |-> "raise"]} \cup {[kind |-> "return", raw_text |-> r] : r \in RawOutputs}

NotConfigured == [kind |-> "not configured"]

(***************************************************************************)
(* State                                                                   *)
(***************************************************************************)
VARIABLES
  regulations,         \* kb.regulations: the records the knowledge base holds
  regulation_vectors,  \* kb.regulation_vectors: "None", or "fitted" by fit_transform
  is_built,            \* kb.is_built
  client,              \* ComplianceAnalyzer.client is set (GEMINI_API_KEY given)
  custom_jargon,       \* the entries add_custom_jargon has put in jargon_dictionary
  phase,               \* "idle", "called" (analyze_feature entered), "returned"
  call,                \* the arguments of the call
  result,              \* what analyze_feature returned
  trace,               \* the intermediate values of that call
  kb_query,            \* what the index search did in the last direct query of the kb
  kb_result,           \* what find_relevant_regulations returned to that query
  requests,            \* the /analyze-feature requests of the service, by number
  queue,               \* the requests the server has accepted and not yet started
  loop,                \* the request whose handler runs on the event loop, or 0
  remembered,          \* an earlier call kept for comparison with a later one
  handler,             \* the endpoint coroutine of main.py that is running, if any
  audit_trail          \* the rows of the table compliance_analysis, oldest first

vars == <<regulations, regulation_vectors, is_built, client, custom_jargon,
          phase, call, result, trace, kb_query, kb_result, requests, queue, loop,
          remembered, handler, audit_trail>>

\* the state of the objects the analyzer is made of
analyzer_vars == <<regulations, regulation_vectors, is_built, client, custom_jargon,
                   phase, call, result, trace, kb_query, kb_result, remembered>>

\* the state of the web service
serve_vars == <<requests, queue, loop, handler, audit_trail>>

\* the number of requests the clients send
MaxRequests == 3

RequestIds == 1..MaxRequests

NewRequest == [pc |-> "new", judged_by |-> "nothing"]

NothingRemembered == [kind |-> "nothing"]

\* no endpoint is running; n requests have been handled
IdleHandler(n) ==
  [endpoint |-> "none", pc |-> "idle", features |-> <<>>, k |-> 0, results |-> <<>>,
   status |-> 0, failed |-> "nothing", csv_export |-> FALSE, request |-> n]

\* jargon_resolver.jargon_dictionary
JargonDictionary == DictUpdate(SeedJargonDictionary, custom_jargon)

NoCall == [title |-> <<>>, description |-> <<>>, prd |-> <<>>, trd |-> <<>>]

NoResult == [status |-> "none"]

NoTrace == [raised |-> "no call"]

NoQuery == [kind |-> "no query"]

\* what the try block of find_relevant_regulations can meet: on an index
\* that was never fitted vectorizer.transform raises NotFittedError
SearchOn(vectors) ==
  IF vectors = "None" THEN {[kind |-> "raise"]} ELSE SearchOutcomes

Init ==
  /\ regulations = <<>>
  /\ regulation_vectors = "None"
  /\ is_built = FALSE
  /\ client \in BOOLEAN
  /\ custom_jargon = <<>>
  /\ phase = "idle"
  /\ call = NoCall
  /\ result = NoResult
  /\ trace = NoTrace
  /\ kb_query = NoQuery
  /\ kb_result = <<>>
  /\ requests = [r \in RequestIds |-> NewRequest]
  /\ queue = <<>>
  /\ loop = 0
  /\ remembered = NothingRemembered
  /\ handler = IdleHandler(0)
  /\ audit_trail = <<>>

\* build_knowledge_base whose flag is raised before the index is fitted
BuildKnowledgeBase_FlagFirst(index_ok) ==
  /\ phase = "idle"
  /\ regulations' = LoadRegulationData
  /\ is_built' = TRUE
  /\ regulation_vectors' = (IF index_ok THEN "fitted" ELSE regulation_vectors)
  /\ UNCHANGED <<client, custom_jargon, phase, call, result, trace, kb_query, kb_result>>
  /\ UNCHANGED <<serve_vars, remembered>>

\* RegulationKnowledgeBase.build_knowledge_base: the records are loaded, then
\* _build_search_index fits the vectors, then the flag is raised.  index_ok:
\* fit_transform returns (otherwise it raises, the except branch re-raises,
\* and the vectors and the flag stay as they were)
BuildKnowledgeBase(index_ok) ==
  /\ phase = "idle"
  /\ regulations' = LoadRegulationData
  /\ regulation_vectors' = (IF index_ok THEN "fitted" ELSE regulation_vectors)
  /\ is_built' = (is_built \/ index_ok)
  /\ UNCHANGED <<client, custom_jargon, phase, call, result, trace, kb_query, kb_result>>
  /\ UNCHANGED <<serve_vars, remembered>>

\* JargonResolver.add_custom_jargon
AddCustomJargon(jargon, meaning) ==
  /\ phase = "idle"
  /\ Len(custom_jargon) < MaxCustom
  /\ custom_jargon' = DictSet(custom_jargon, Lower(jargon), meaning)
  /\ UNCHANGED <<regulations, regulation_vectors, is_built, client, phase, call,
                 result, trace, kb_query, kb_result>>
  /\ UNCHANGED <<serve_vars, remembered>>

\* a caller enters analyze_feature(title, description, prd, trd)
Invoke(title, description, prd, trd) ==
  /\ phase = "idle"
  /\ call' = [title |-> title, description |-> description, prd |-> prd, trd |-> trd]
  /\ phase' = "called"
  /\ UNCHANGED <<regulations, regulation_vectors, is_built, client, custom_jargon,
                 result, trace, kb_query, kb_result>>
  /\ UNCHANGED <<serve_vars, remembered>>

\* ComplianceAnalyzer.analyze_feature runs to its return.  The index is
\* searched only when the knowledge base is built, the provider is called
\* only when the client is configured.
AnalyzeFeature ==
  /\ phase = "called"
  /\ \E clean  \in {AnnotateText(JargonDictionary, call, FALSE)},
        faulty \in {AnnotateText(JargonDictionary, call, TRUE)} :
        \E jargon_fault \in BOOLEAN,
           search \in (IF is_built THEN SearchOn(regulation_vectors) ELSE {NotSearched}),
           remote \in (IF client THEN RemoteOutcomes ELSE {NotConfigured}) :
           LET annotated == IF jargon_fault THEN faulty ELSE clean
               out == AnalyzeFeatureBody(annotated, regulations, is_built, client,
                        [search |-> search, remote |-> remote])
           IN  /\ result' = out.result
               /\ trace' = out.trace
               /\ regulations' = (IF annotated.resolved.ok
                                  THEN RegulationsAfterFind(regulations, is_built, search)
                                  ELSE regulations)
  /\ phase' = "returned"
  /\ UNCHANGED <<regulation_vectors, is_built, client, custom_jargon, call,
                 kb_query, kb_result>>
  /\ UNCHANGED <<serve_vars, remembered>>

\* the caller has the result; the analyzer is ready for the next call
TakeResult ==
  /\ phase = "returned"
  /\ phase' = "idle"
  /\ call' = NoCall
  /\ result' = NoResult
  /\ trace' = NoTrace
  /\ UNCHANGED <<regulations, regulation_vectors, is_built, client, custom_jargon,
                 kb_query, kb_result>>
  /\ UNCHANGED <<serve_vars, remembered>>

Next ==
  \/ \E index_ok \in BOOLEAN : BuildKnowledgeBase(index_ok)
  \/ \E e \in CustomJargonPool : AddCustomJargon(e[1], e[2])
  \/ \E title \in Titles, description \in Descriptions, prd \in Prds, trd \in Trds :
        Invoke(title, description, prd, trd)
  \/ AnalyzeFeature
  \/ TakeResult

Spec == Init /\ [][Next]_vars

(***************************************************************************)
(* The knowledge base on its own: builds and direct queries                *)
(***************************************************************************)
\* the similarities a query can have to one record: just under the
\* threshold, on it, above it, and well above it
SimValues == {threshold - 1, threshold, threshold + 1, 30}

\* every vector of those similarities over the first KbWide records, the
\* records after them being as similar as the last of these
KbWide == 6

KbSimVectors ==
  {[i \in CorpusIdx |-> IF i <= KbWide THEN v[i] ELSE v[KbWide]] :
     v \in [1..KbWide -> SimValues]}

KbSearchOn(vectors) ==
  IF vectors = "None" THEN {[kind |-> "raise"]}
  ELSE {[kind |-> "raise"]} \cup {[kind |-> "return", similarities |-> v] : v \in KbSimVectors}

\* a caller runs kb.find_relevant_regulations(text) to its return
QueryKnowledgeBase(search) ==
  /\ phase = "idle"
  /\ kb_query = NoQuery
  /\ kb_query' = search
  /\ kb_result' = FindRelevantRegulations(regulations, is_built, search)
  /\ regulations' = RegulationsAfterFind(regulations, is_built, search)
  /\ UNCHANGED <<regulation_vectors, is_built, client, custom_jargon, phase, call,
                 result, trace>>
  /\ UNCHANGED <<serve_vars, remembered>>

\* the caller has the list; the knowledge base is ready for the next query
TakeRegulations ==
  /\ kb_query # NoQuery
  /\ kb_query' = NoQuery
  /\ kb_result' = <<>>
  /\ UNCHANGED <<regulations, regulation_vectors, is_built, client, custom_jargon,
                 phase, call, result, trace>>
  /\ UNCHANGED <<serve_vars, remembered>>

KbNext ==
  \/ \E index_ok \in BOOLEAN : kb_query = NoQuery /\ BuildKnowledgeBase(index_ok)
  \/ /\ kb_query = NoQuery
     /\ \E search \in (IF is_built THEN KbSearchOn(regulation_vectors) ELSE {NotSearched}) :
           QueryKnowledgeBase(search)
  \/ TakeRegulations

KbSpec == Init /\ [][KbNext]_vars

(***************************************************************************)
(* The knowledge base queried with texts                                   *)
(***************************************************************************)
\* the texts of the queries: the text each record was indexed from, and
\* each of its parts
QueryTexts ==
  {regulation_texts[i] : i \in CorpusIdx}
  \cup {RegulationTextParts[i].name : i \in CorpusIdx}
  \cup {RegulationTextParts[i].description : i \in CorpusIdx}
  \cup {RegulationTextParts[i].key_obligations : i \in CorpusIdx}
  \cup {RegulationTextParts[i].scope : i \in CorpusIdx}

\* a caller runs kb.find_relevant_regulations(text) to its return, the
\* index search being the library's
QueryText(text, stop_words) ==
  /\ phase = "idle"
  /\ kb_query = NoQuery
  /\ \E search \in
        (IF is_built /\ regulation_vectors = "fitted"
         THEN {[kind |-> "return", text |-> text, stop_words |-> stop_words,
                similarities |-> TextSimilarities(text, stop_words, FitTexts(stop_words))]}
         ELSE IF is_built
         THEN {[kind |-> "raise", text |-> text, stop_words |-> stop_words]}
         ELSE {[kind |-> "not searched", text |-> text, stop_words |-> stop_words]}) :
        /\ kb_query' = search
        /\ kb_result' = FindRelevantRegulations(regulations, is_built, search)
        /\ regulations' = RegulationsAfterFind(regulations, is_built, search)
  /\ UNCHANGED <<regulation_vectors, is_built, client, custom_jargon, phase, call,
                 result, trace>>
  /\ UNCHANGED <<serve_vars, remembered>>

IndexNext ==
  \/ \E index_ok \in BOOLEAN : kb_query = NoQuery /\ BuildKnowledgeBase(index_ok)
  \/ \E text \in QueryTexts, stop_words \in StopWordLists : QueryText(text, stop_words)
  \/ TakeRegulations

IndexSpec == Init /\ [][IndexNext]_vars

(***************************************************************************)
(* The jargon resolver on its own: custom terms and direct resolutions     *)
(***************************************************************************)
ResolverTexts ==
  { <<"m","i","n","o","r","i","t","y"," ","u","s","e","r","s">>,
    <<"a"," ","M","i","n","o","r"," ","U","s","e","r"," ","j","o","i","n","e","d">>,
    <<"m","i","n","o","r"," ","u","s","e","r","s">>,
    <<"m","i","n","o","r"," ","u","s","e","r">>,
    <<"u","g","c","-","m","i","n","o","r"," ","u","s","e","r",".">>,
    <<"m","e","t","a","d","a","t","a"," ","p","i","p","e","l","i","n","e","s">>,
    <<"t","h","e"," ","D","a","t","a"," ","P","i","p","e","l","i","n","e">>,
    <<"C","D","N"," ","a","n","d"," ","c","d","n">>,
    <<"s","h","a","d","o","w"," ","b","a","n","n","e","d">>,
    <<"g","e","o","-","b","l","o","c","k","i","n","g"," ","b","y"," ","r","e","g","i","o","n">>,
    <<>> }

ResolverJargonPool ==
  { <<<<"D","a","t","a"," ","P","i","p","e","l","i","n","e">>,
       <<"i","n","t","e","r","n","a","l"," ","E","T","L"," ","c","h","a","i","n">>>>,
    <<<<"M","i","n","o","r">>,
       <<"p","e","r","s","o","n"," ","u","n","d","e","r"," ","1","8">>>>,
    <<<<"c","+","+">>,
       <<"s","y","s","t","e","m","s"," ","l","a","n","g","u","a","g","e">>>> }

\* a caller runs jargon_resolver.resolve_jargon(text) to its return; fault:
\* an exception inside its try block
ResolveText(text, fault) ==
  /\ phase = "idle"
  /\ call' = [title |-> text, description |-> <<>>, prd |-> <<>>, trd |-> <<>>]
  /\ result' = [status |-> "resolved", fault |-> fault,
                resolved_terms |-> ResolveJargon(JargonDictionary, text, fault)]
  /\ phase' = "returned"
  /\ UNCHANGED <<regulations, regulation_vectors, is_built, client, custom_jargon,
                 trace, kb_query, kb_result>>
  /\ UNCHANGED <<serve_vars, remembered>>

JargonNext ==
  \/ \E e \in ResolverJargonPool : AddCustomJargon(e[1], e[2])
  \/ \E text \in ResolverTexts, fault \in BOOLEAN : ResolveText(text, fault)
  \/ TakeResult

JargonSpec == Init /\ [][JargonNext]_vars

(***************************************************************************)
(* The web service: /analyze-feature requests on the event loop            *)
(***************************************************************************)
\* a client sends POST /analyze-feature; the server accepts the connection
\* and schedules the endpoint coroutine
Submit(r) ==
  /\ requests[r].pc = "new"
  /\ requests' = [requests EXCEPT ![r].pc = "accepted"]
  /\ queue' = Append(queue, r)
  /\ UNCHANGED loop
  /\ UNCHANGED <<analyzer_vars, handler, audit_trail>>

\* the event loop, idle, runs the next scheduled coroutine: the endpoint
\* analyze_feature enters analyzer.analyze_feature, which runs steps 1 and 2
StartHandler ==
  /\ loop = 0
  /\ queue # <<>>
  /\ loop' = Head(queue)
  /\ queue' = Tail(queue)
  /\ requests' = [requests EXCEPT ![Head(queue)].pc = "analysing"]
  /\ UNCHANGED <<analyzer_vars, handler, audit_trail>>

\* _llm_compliance_check: with a client, self.client.generate_content(prompt)
\* is called on the thread of the event loop and the handler waits in it;
\* without one the fallback judgement is computed at once
CallProvider ==
  /\ loop # 0
  /\ requests[loop].pc = "analysing"
  /\ requests' = [requests EXCEPT ![loop] =
                    IF client THEN [pc |-> "waiting", judged_by |-> "nothing"]
                    ELSE [pc |-> "judged", judged_by |-> "fallback"]]
  /\ UNCHANGED <<queue, loop>>
  /\ UNCHANGED <<analyzer_vars, handler, audit_trail>>

\* the provider answers the pending call: generate_content returns text
\* that holds a judgement, or returns other text or raises, and the fallback
\* judgement is used
ProviderResponds(r, outcome) ==
  /\ requests[r].pc = "waiting"
  /\ requests' = [requests EXCEPT ![r] =
                    [pc |-> "judged",
                     judged_by |-> IF outcome = "judgement" THEN "remote" ELSE "fallback"]]
  /\ UNCHANGED <<queue, loop>>
  /\ UNCHANGED <<analyzer_vars, handler, audit_trail>>

\* steps 4 to 7 of analyze_feature, the response, save_to_database and the
\* return of the endpoint, which gives the event loop back
Respond ==
  /\ loop # 0
  /\ requests[loop].pc = "judged"
  /\ requests' = [requests EXCEPT ![loop].pc = "done"]
  /\ loop' = 0
  /\ UNCHANGED queue
  /\ UNCHANGED <<analyzer_vars, handler, audit_trail>>

ServeNext ==
  \/ \E r \in RequestIds : Submit(r)
  \/ StartHandler
  \/ CallProvider
  \/ \E r \in RequestIds, outcome \in {"judgement", "no judgement", "raise"} :
        ProviderResponds(r, outcome)
  \/ Respond

ServeSpec == Init /\ [][ServeNext]_vars

\* the event loop and the handler's own code keep running; nothing obliges
\* the provider to answer or a client to send a request
FairServeSpec ==
  /\ ServeSpec
  /\ WF_vars(StartHandler)
  /\ WF_vars(CallProvider)
  /\ WF_vars(Respond)

(***************************************************************************)
(* Repeated calls: one call is kept and compared with a later call of the  *)
(* same arguments                                                          *)
(***************************************************************************)
\* the judgement of the call is the fallback's, not the provider's
FallbackPath ==
  \/ trace.provider.kind \in {"not configured", "raise"}
  \/ /\ trace.provider.kind = "return"
     /\ ParseProviderOutput(trace.provider.raw_text).kind # "decoded"

ReplayCalls ==
  { [title |-> <<"T","e","e","n"," ","C","u","r","f","e","w">>, description |-> <<>>,
     prd |-> <<"a","g","e"," ","v","e","r","i","f","i","c","a","t","i","o","n">>, trd |-> <<>>],
    [title |-> <<"f","y","p">>,
     description |-> <<"t","r","a","c","k","i","n","g"," ","h","a","t","e"," ","f","e","e","d">>,
     prd |-> <<>>, trd |-> <<>>] }

\* the index search of a fitted index is a function of the query: the
\* vectors stand for the similarities of the queries of ReplayCalls
ReplaySearchOn(vectors) ==
  IF vectors = "None" THEN {[kind |-> "raise"]}
  ELSE {[kind |-> "raise"],
        [kind |-> "return", similarities |-> Similarities({8}, {2}, {1})],
        [kind |-> "return", similarities |-> Similarities(CorpusIdx, {}, {})]}

ReplayRemoteOutcomes ==
  {[kind |-> "raise"],
   [kind |-> "return", raw_text |-> <<Prose>>],
   [kind |-> "return",
    raw_text |-> <<Prose, Object(Judgement(TRUE, JInt(100), JList(<<>>))), Prose>>]}

\* the call in progress has the arguments of the kept call, and the
\* dictionary and the knowledge base are as they were then
SameInputs ==
  /\ remembered.kind = "call"
  /\ remembered.call = call
  /\ remembered.custom_jargon = custom_jargon
  /\ remembered.is_built = is_built
  /\ remembered.regulation_vectors = regulation_vectors

\* ComplianceAnalyzer.analyze_feature runs to its return.  A call of the
\* kept arguments meets what the kept call met in resolve_jargon and in the
\* index search, both being functions of the text and of unchanged objects;
\* the provider is free.  A first call that ends with the fallback judgement
\* may be kept.
ReplayAnalyzeFeature ==
  /\ phase = "called"
  /\ phase' = "returned"
  /\ \E clean  \in {AnnotateText(JargonDictionary, call, FALSE)},
        faulty \in {AnnotateText(JargonDictionary, call, TRUE)} :
        \E jargon_fault \in BOOLEAN,
           search \in (IF is_built THEN ReplaySearchOn(regulation_vectors) ELSE {NotSearched}),
           remote \in (IF client THEN ReplayRemoteOutcomes ELSE {NotConfigured}) :
           LET annotated == IF jargon_fault THEN faulty ELSE clean
               out == AnalyzeFeatureBody(annotated, regulations, is_built, client,
                        [search |-> search, remote |-> remote])
               kept == [kind |-> "call", call |-> call, custom_jargon |-> custom_jargon,
                        is_built |-> is_built, regulation_vectors |-> regulation_vectors,
                        jargon_fault |-> jargon_fault, search |-> search,
                        provider |-> remote,
                        risk_score |-> out.result.risk_score,
                        evidence |-> out.result.evidence,
                        requires_geo_compliance |-> out.result.requires_geo_compliance,
                        others |-> FALSE, replayed |-> FALSE]
           IN  /\ SameInputs =>
                    (jargon_fault = remembered.jargon_fault /\ search = remembered.search)
               /\ result' = out.result
               /\ trace' = out.trace
               /\ regulations' = (IF annotated.resolved.ok
                                  THEN RegulationsAfterFind(regulations, is_built, search)
                                  ELSE regulations)
               /\ remembered' \in
                    IF remembered.kind = "nothing"
                    THEN {remembered} \cup
                         (IF trace'.raised = "none" /\ FallbackPath' THEN {kept} ELSE {})
                    ELSE IF SameInputs /\ trace'.raised = "none" /\ FallbackPath'
                    THEN {[remembered EXCEPT !.replayed = TRUE]}
                    ELSE {[remembered EXCEPT !.others = TRUE]}
  /\ UNCHANGED <<regulation_vectors, is_built, client, custom_jargon, call,
                 kb_query, kb_result>>
  /\ UNCHANGED serve_vars

ReplayNext ==
  \/ \E index_ok \in BOOLEAN : BuildKnowledgeBase(index_ok)
  \/ \E c \in ReplayCalls : Invoke(c.title, c.description, c.prd, c.trd)
  \/ ReplayAnalyzeFeature
  \/ TakeResult

ReplaySpec == Init /\ [][ReplayNext]_vars

(***************************************************************************)
(* The validation scenarios of the analysis                                *)
(***************************************************************************)
\* a feature that collects nothing
ScenarioB ==
  [title |-> <<>>,
   description |-> <<"b","a","s","i","c"," ","v","i","d","e","o"," ","u","p","l","o","a","d"," ","w","i","t","h"," ","f","o","r","m","a","t"," ","c","o","n","v","e","r","s","i","o","n",","," ","n","o"," ","u","s","e","r"," ","d","a","t","a"," ","c","o","l","l","e","c","t","e","d">>,
   prd |-> <<>>, trd |-> <<>>]

\* features with a curfew, parental control and age verification
ScenarioA ==
  {[title |-> <<>>,
   description |-> <<"C","u","r","f","e","w"," ","w","i","t","h"," ","p","a","r","e","n","t","a","l"," ","a","p","p","r","o","v","a","l"," ","a","n","d"," ","a","g","e"," ","v","e","r","i","f","i","c","a","t","i","o","n"," ","f","o","r"," ","u","s","e","r","s"," ","u","n","d","e","r"," ","1","8">>,
   prd |-> <<>>, trd |-> <<>>],
   [title |-> <<"N","I","G","H","T"," ","C","U","R","F","E","W">>,
   description |-> <<"P","a","r","e","n","t","a","l"," ","l","o","c","k">>,
   prd |-> <<"A","g","e"," ","V","e","r","i","f","i","c","a","t","i","o","n"," ","s","t","e","p">>, trd |-> <<>>],
   [title |-> <<"L","o","g","i","n">>,
   description |-> <<"a","g","e"," ","v","e","r","i","f","i","c","a","t","i","o","n",","," ","t","h","e","n"," ","p","a","r","e","n","t","a","l"," ","c","u","r","f","e","w"," ","m","o","d","e">>,
   prd |-> <<>>, trd |-> <<>>]}

ScenarioCalls ==
  {ScenarioB,
   [title |-> <<"V","i","d","e","o"," ","u","p","l","o","a","d">>,
   description |-> <<"b","a","s","i","c"," ","v","i","d","e","o"," ","u","p","l","o","a","d"," ","w","i","t","h"," ","f","o","r","m","a","t"," ","c","o","n","v","e","r","s","i","o","n">>,
   prd |-> <<>>, trd |-> <<>>]}
  \cup ScenarioA

ScenarioNext ==
  \/ \E index_ok \in BOOLEAN : BuildKnowledgeBase(index_ok)
  \/ \E c \in ScenarioCalls : Invoke(c.title, c.description, c.prd, c.trd)
  \/ AnalyzeFeature
  \/ TakeResult

ScenarioSpec == Init /\ [][ScenarioNext]_vars

(***************************************************************************)
(* Calls at the edges of the rules: texts of 200 characters and more, a    *)
(* keyword of the lightest category                                        *)
(***************************************************************************)
\* a word of n letters
Filler(n) == [i \in 1..n |-> "x"]

EdgeCalls ==
  {[title |-> Filler(200), description |-> <<>>, prd |-> <<>>, trd |-> <<>>],
   [title |-> Filler(201), description |-> <<>>, prd |-> <<>>, trd |-> <<>>],
   [title |-> Filler(205), description |-> <<"t","r","a","c","k","i","n","g">>,
    prd |-> <<>>, trd |-> <<>>],
   [title |-> <<"c","r","o","s","s","-","b","o","r","d","e","r"," ","s","y","n","c">>,
    description |-> <<>>, prd |-> <<>>, trd |-> <<>>]}

EdgeNext ==
  \/ \E index_ok \in BOOLEAN : BuildKnowledgeBase(index_ok)
  \/ \E c \in EdgeCalls : Invoke(c.title, c.description, c.prd, c.trd)
  \/ AnalyzeFeature
  \/ TakeResult

EdgeSpec == Init /\ [][EdgeNext]_vars

(***************************************************************************)
(* The endpoints of main.py: /analyze-feature and /analyze-batch, the      *)
(* response model and the audit table                                      *)
(***************************************************************************)
\* the number of requests the clients post to the two endpoints
MaxPosts == 2

EndpointFeatures ==
  {[title |-> <<"T","e","e","n"," ","C","u","r","f","e","w">>, description |-> <<>>,
    prd |-> <<>>, trd |-> <<>>],
   [title |-> <<"V","i","d","e","o"," ","u","p","l","o","a","d">>, description |-> <<>>,
    prd |-> <<>>, trd |-> <<>>]}

\* the feature lists of the batch requests: none, one, three features
Batches ==
  LET teen  == CHOOSE f \in EndpointFeatures : f.title[1] = "T"
      video == CHOOSE f \in EndpointFeatures : f.title[1] = "V"
  IN  {<<>>, <<teen>>, <<video, teen, video>>}

\* what generate_content does during a request: it raises, or returns a
\* judgement whose confidence is no number, or a judgement whose reasoning
\* is null
EndpointRemoteOutcomes ==
  {[kind |-> "raise"],
   [kind |-> "return", raw_text |-> <<Object(Judgement(TRUE, JStr("high"), JList(<<>>)))>>],
   [kind |-> "return",
    raw_text |-> <<Object([Judgement(TRUE, JInt(100), JList(<<>>)) EXCEPT !.reasoning = JNull])>>]}

\* an endpoint coroutine starts: "if not analyzer" raises (the global is
\* assigned by startup_event only when initialize_system, and in it
\* build_knowledge_base, returned); otherwise the loop over the features
\* begins with the call of analyzer.analyze_feature for the first one
AcceptRequest(endpoint, features) ==
  /\ handler.pc = "idle"
  /\ handler.request < MaxPosts
  /\ phase = "idle"
  /\ LET began == [IdleHandler(handler.request + 1) EXCEPT
                     !.endpoint = endpoint, !.features = features]
     IN  IF ~is_built
         THEN /\ handler' = [began EXCEPT !.pc = "responded", !.status = 500,
                                          !.failed = "not initialized"]
              /\ UNCHANGED <<phase, call>>
         ELSE IF features = <<>>
         THEN /\ handler' = [began EXCEPT !.pc = "exporting"]
              /\ UNCHANGED <<phase, call>>
         ELSE /\ handler' = [began EXCEPT !.pc = "analysing", !.k = 1]
              /\ call' = features[1]
              /\ phase' = "called"
  /\ UNCHANGED <<regulations, regulation_vectors, is_built, client, custom_jargon,
                 result, trace, kb_query, kb_result, remembered, requests, queue, loop,
                 audit_trail>>

\* POST /analyze-feature
PostAnalyzeFeature(feature) == AcceptRequest("feature", <<feature>>)

\* POST /analyze-batch
PostAnalyzeBatch(features) == AcceptRequest("batch", features)

\* analyzer.analyze_feature, called by the endpoint, runs to its return
HandlerAnalyzes ==
  /\ handler.pc = "analysing"
  /\ phase = "called"
  /\ \E annotated \in {AnnotateText(JargonDictionary, call, FALSE)} :
        \E search \in {[kind |-> "return", similarities |-> Similarities({8}, {2}, {1})]},
           remote \in (IF client THEN EndpointRemoteOutcomes ELSE {NotConfigured}) :
           LET out == AnalyzeFeatureBody(annotated, regulations, is_built, client,
                        [search |-> search, remote |-> remote])
           IN  /\ result' = out.result
               /\ trace' = out.trace
               /\ regulations' = RegulationsAfterFind(regulations, is_built, search)
  /\ phase' = "returned"
  /\ UNCHANGED <<regulation_vectors, is_built, client, custom_jargon, call,
                 kb_query, kb_result, remembered, requests, queue, loop,
                 handler, audit_trail>>

\* the ComplianceResponse of the feature in hand, as far as the audit row
\* keeps it; feature_id, a fresh uuid4, is the pair of request and position
NewResponse ==
  [feature_id |-> <<handler.request, handler.k>>,
   title |-> call.title,
   requires_geo_compliance |-> result.requires_geo_compliance,
   risk_score |-> result.risk_score]

\* a handler that answers a failed analysis with an error
BuildResponse_RejectDefault ==
  /\ handler.pc = "analysing"
  /\ phase = "returned"
  /\ handler' = IF result.reasoning.t = "str" /\ trace.raised = "none"
                THEN [handler EXCEPT !.pc = "saving", !.results = Append(@, NewResponse)]
                ELSE [handler EXCEPT !.pc = "responded", !.status = 500,
                                     !.failed = "response"]
  /\ UNCHANGED <<analyzer_vars, requests, queue, loop, audit_trail>>

\* ComplianceResponse(...) of the result: the model validates its fields and
\* raises when reasoning is no string (the other fields have their types in
\* every result); in the batch the response joins results
BuildResponse ==
  /\ handler.pc = "analysing"
  /\ phase = "returned"
  /\ handler' = IF result.reasoning.t = "str"
                THEN [handler EXCEPT !.pc = "saving", !.results = Append(@, NewResponse)]
                ELSE [handler EXCEPT !.pc = "responded", !.status = 500,
                                     !.failed = "response"]
  /\ UNCHANGED <<analyzer_vars, requests, queue, loop, audit_trail>>

\* a batch that is saved in one transaction, undone when a save fails
SaveToDatabase_OneTransaction(committed) ==
  /\ handler.pc = "saving"
  /\ IF ~committed
     THEN /\ handler' = [handler EXCEPT !.pc = "responded", !.status = 500,
                                        !.failed = "database"]
          /\ audit_trail' = SelectSeq(audit_trail,
                              LAMBDA row : row.feature_id[1] # handler.request)
          /\ UNCHANGED <<phase, call, result, trace>>
     ELSE /\ audit_trail' = Append(audit_trail, handler.results[Len(handler.results)])
          /\ IF handler.k < Len(handler.features)
             THEN /\ handler' = [handler EXCEPT !.pc = "analysing", !.k = @ + 1]
                  /\ call' = handler.features[handler.k + 1]
                  /\ phase' = "called"
                  /\ result' = NoResult
                  /\ trace' = NoTrace
             ELSE /\ handler' = IF handler.endpoint = "feature"
                                THEN [handler EXCEPT !.pc = "responded", !.status = 200]
                                ELSE [handler EXCEPT !.pc = "exporting"]
                  /\ UNCHANGED <<phase, call, result, trace>>
  /\ UNCHANGED <<regulations, regulation_vectors, is_built, client, custom_jargon,
                 kb_query, kb_result, remembered, requests, queue, loop>>

\* save_to_database(feature_id, response): a connection of its own, one
\* INSERT, commit, close.  committed: the row is in the table; otherwise
\* connect, execute or commit raised, nothing of this call is in the table
\* and the endpoint's except branch answers 500.  After a commit the
\* endpoint /analyze-feature returns; the batch goes on to the next feature
\* or, after the last, to the export.
SaveToDatabase(committed) ==
  /\ handler.pc = "saving"
  /\ IF ~committed
     THEN /\ handler' = [handler EXCEPT !.pc = "responded", !.status = 500,
                                        !.failed = "database"]
          /\ UNCHANGED <<audit_trail, phase, call, result, trace>>
     ELSE /\ audit_trail' = Append(audit_trail, handler.results[Len(handler.results)])
          /\ IF handler.k < Len(handler.features)
             THEN /\ handler' = [handler EXCEPT !.pc = "analysing", !.k = @ + 1]
                  /\ call' = handler.features[handler.k + 1]
                  /\ phase' = "called"
                  /\ result' = NoResult
                  /\ trace' = NoTrace
             ELSE /\ handler' = IF handler.endpoint = "feature"
                                THEN [handler EXCEPT !.pc = "responded", !.status = 200]
                                ELSE [handler EXCEPT !.pc = "exporting"]
                  /\ UNCHANGED <<phase, call, result, trace>>
  /\ UNCHANGED <<regulations, regulation_vectors, is_built, client, custom_jargon,
                 kb_query, kb_result, remembered, requests, queue, loop>>

\* generate_csv_export(results) and the return of /analyze-batch; written:
\* to_csv returned (otherwise it raised and the except branch answers 500)
GenerateCsvExport(written) ==
  /\ handler.pc = "exporting"
  /\ handler' = IF written
                THEN [handler EXCEPT !.pc = "responded", !.status = 200,
                                     !.csv_export = TRUE]
                ELSE [handler EXCEPT !.pc = "responded", !.status = 500,
                                     !.failed = "export"]
  /\ UNCHANGED <<analyzer_vars, requests, queue, loop, audit_trail>>

\* the response is sent and the coroutine ends
SendResponse ==
  /\ handler.pc = "responded"
  /\ handler' = IdleHandler(handler.request)
  /\ phase' = "idle"
  /\ call' = NoCall
  /\ result' = NoResult
  /\ trace' = NoTrace
  /\ UNCHANGED <<regulations, regulation_vectors, is_built, client, custom_jargon,
                 kb_query, kb_result, remembered, requests, queue, loop, audit_trail>>

\* startup_event runs initialize_system once, before any request is served
EndpointNext ==
  \/ /\ regulations = <<>>
     /\ handler = IdleHandler(0)
     /\ \E index_ok \in BOOLEAN : BuildKnowledgeBase(index_ok)
  \/ \E feature \in EndpointFeatures : PostAnalyzeFeature(feature)
  \/ \E features \in Batches : PostAnalyzeBatch(features)
  \/ HandlerAnalyzes
  \/ BuildResponse
  \/ \E committed \in BOOLEAN : SaveToDatabase(committed)
  \/ \E written \in BOOLEAN : GenerateCsvExport(written)
  \/ SendResponse

EndpointSpec == Init /\ [][EndpointNext]_vars

(***************************************************************************)
(* Properties of the result of analyze_feature                             *)
(***************************************************************************)
\* analyze_feature returned from its try block
NormalResult == phase = "returned" /\ trace.raised = "none"

\* the judgement of the call says compliance is required
SignalJudgement == Truthy(Get(trace.llm_analysis, "requires_compliance", JBool(FALSE)))

\* the call got no judgement out of the provider: the client is not
\* configured, generate_content raised, or its output decodes to no object
ProviderFailed ==
  \/ trace.provider.kind \in {"not configured", "raise"}
  \/ /\ trace.provider.kind = "return"
     /\ ParseProviderOutput(trace.provider.raw_text).kind \in {"no match", "JSONDecodeError"}

\* the regions a judgement lists
LikelyRegions(llm_analysis) ==
  IF "likely_regions" \in DOMAIN llm_analysis
  THEN {llm_analysis["likely_regions"].v[n].v : n \in DOMAIN llm_analysis["likely_regions"].v}
  ELSE {}

\* some keyword of some category of risk_keywords occurs in the text
KeywordPresent(text) ==
  \E n \in DOMAIN risk_keywords :
     \E m \in DOMAIN risk_keywords[n][2] :
        Contains(Lower(text), Lower(risk_keywords[n][2][m]))

\* the sum of the weights of the first n categories of risk_keywords that
\* have a keyword in the text
RECURSIVE PresentWeight(_, _)
PresentWeight(text, n) ==
  IF n = 0 THEN 0
  ELSE PresentWeight(text, n - 1)
       + (IF \E m \in DOMAIN risk_keywords[n][2] :
                Contains(Lower(text), Lower(risk_keywords[n][2][m]))
          THEN risk_weights[risk_keywords[n][1]] ELSE 0)

\* the regulation part of the score: min(15 n, 30) + 20 c + 10 k
RegulationPart(regs) ==
  LET n == Len(regs)
      c == Cardinality({i \in DOMAIN regs :
             \E w \in {<<"c","h","i","l","d">>, <<"m","i","n","o","r">>, <<"y","o","u","t","h">>} :
                Contains(Lower(Chars[regs[i].name]), w)})
      k == Cardinality({i \in DOMAIN regs :
             Contains(Lower(Chars[regs[i].jurisdiction]),
                      <<"c","a","l","i","f","o","r","n","i","a">>)})
  IN  (IF 15 * n < 30 THEN 15 * n ELSE 30) + 20 * c + 10 * k

Clamp(x, lo, hi) == IF x < lo THEN lo ELSE IF x > hi THEN hi ELSE x

\* C1: the risk_score of every result analyze_feature returns is an integer
\* from 0 to 100, whatever the text, the regulations retrieved and the
\* judgement, a remote confidence below 0 or above 100 included.
C1_RiskScoreInRange ==
  phase = "returned" => result.risk_score \in 0..100

\* a remote judgement with confidence -5 on a text without keywords and no
\* regulation: the sum is negative and the score returned is 0
C1_Witness ==
  /\ NormalResult
  /\ trace.provider.kind = "return"
  /\ SignalJudgement
  /\ Get(trace.llm_analysis, "confidence", JNull) = JInt(-5)
  /\ trace.relevant_regulations = <<>>
  /\ ~KeywordPresent(trace.resolved_text)
  /\ result.risk_score = 0

\* C2: the flag of a result is true exactly when at least 2 of the 3 signals
\* hold: the judgement requires compliance, the risk score is at least 30,
\* a regulation was retrieved.
C2_MajorityVote ==
  NormalResult =>
    LET count == (IF SignalJudgement THEN 1 ELSE 0)
                 + (IF result.risk_score >= 30 THEN 1 ELSE 0)
                 + (IF trace.relevant_regulations # <<>> THEN 1 ELSE 0)
    IN  result.requires_geo_compliance <=> count >= 2

\* the judgement requires compliance and a regulation was retrieved, the
\* score stays below 30: flagged by two signals of three
C2_Witness ==
  /\ NormalResult
  /\ SignalJudgement
  /\ result.risk_score < 30
  /\ trace.relevant_regulations # <<>>
  /\ result.requires_geo_compliance

C4_ProviderFailureFallsBack ==
  (phase = "returned" /\ trace.raised # "annotation" /\ ProviderFailed) =>
    LET fallback == FallbackComplianceAnalysis(MatchedCategories(trace.resolved_text),
                                               trace.relevant_regulations)
    IN  /\ trace.llm_analysis = fallback
        /\ trace.raised = "none"
        /\ result.reasoning = fallback.reasoning

\* the provider raised while regulations were retrieved
C4_Witness ==
  /\ NormalResult
  /\ trace.provider.kind = "raise"
  /\ trace.relevant_regulations # <<>>
  /\ trace.llm_analysis.confidence = JInt(75)

\* C5: on the fallback path the judgement's confidence is 75 when the
\* fallback requires compliance and 85 otherwise, and the evidence of the
\* result ends with that confidence as a percentage.
C5_FallbackConfidence ==
  (NormalResult /\ FallbackPath) =>
    LET confidence == IF SignalJudgement THEN 75 ELSE 85
        before == EvidenceParts(trace.resolved_text, MatchedCategories(trace.resolved_text),
                                trace.relevant_regulations, <<>>)
    IN  /\ trace.llm_analysis.confidence = JInt(confidence)
        /\ result.evidence =
             JoinStrings(before \o <<"Analysis confidence: " \o ToString(confidence) \o "%">>,
                         " | ")

\* a text without keywords and no regulation on the fallback path
C5_Witness ==
  /\ NormalResult
  /\ FallbackPath
  /\ ~SignalJudgement
  /\ result.evidence = "Feature text: Video upload | Analysis confidence: 85%"

\* C6: the regions_affected of a normal result hold exactly the jurisdictions
\* of the retrieved regulations and the likely_regions of the judgement used,
\* each once, in ascending order.
C6_RegionsSortedUnion ==
  NormalResult =>
    LET regions == result.regions_affected
    IN  /\ Range(regions) = Jurisdictions(trace.relevant_regulations)
                            \cup LikelyRegions(trace.llm_analysis)
        /\ \A i, j \in DOMAIN regions :
              i < j => StrLess(Chars[regions[i]], Chars[regions[j]])

\* two regulations of one jurisdiction and a judgement naming two more regions
C6_Witness ==
  /\ NormalResult
  /\ Len(trace.relevant_regulations) = 2
  /\ Jurisdictions(trace.relevant_regulations) = {"European Union"}
  /\ result.regions_affected = <<"Brazil", "European Union", "california">>

\* C7: the likely_regions of every judgement used are among the
\* jurisdictions of the retrieved regulations, so regions_affected holds no
\* other region.
C7_LikelyRegionsRetrieved ==
  NormalResult =>
    /\ LikelyRegions(trace.llm_analysis) \subseteq Jurisdictions(trace.relevant_regulations)
    /\ Range(result.regions_affected) \subseteq Jurisdictions(trace.relevant_regulations)

\* C8: the fallback judgement requires compliance exactly when a keyword of
\* some category occurs in the annotated text or a regulation was retrieved.
C8_FallbackVerdict ==
  (NormalResult /\ FallbackPath) =>
    (trace.llm_analysis.requires_compliance =
       JBool(KeywordPresent(trace.resolved_text) \/ trace.relevant_regulations # <<>>))

\* no regulation retrieved, and a keyword that only the annotation brought in
C8_Witness ==
  /\ NormalResult
  /\ FallbackPath
  /\ trace.relevant_regulations = <<>>
  /\ ~KeywordPresent(FullText(call))
  /\ KeywordPresent(trace.resolved_text)
  /\ trace.llm_analysis.requires_compliance = JBool(TRUE)

\* C9: each of the nine weighted categories can be present in a text (it has
\* keywords) and a present category adds its weight once.
C9_EveryWeightedCategoryDetectable ==
  /\ \A category \in DOMAIN risk_weights :
        \E n \in DOMAIN risk_keywords :
           risk_keywords[n][1] = category /\ risk_keywords[n][2] # <<>>
  /\ NormalResult /\ ~SignalJudgement /\ trace.relevant_regulations = <<>> =>
        result.risk_score =
          Clamp(PresentWeight(trace.resolved_text, Len(risk_keywords)), 0, 100)

C11_QueryNeverRaises ==
  /\ is_built => (regulations = LoadRegulationData /\ regulation_vectors = "fitted")
  /\ kb_result # <<>> => (is_built /\ kb_query.kind = "return")
  /\ kb_query.kind \in {"not searched", "raise"} => kb_result = <<>>
  /\ kb_query.kind = "not searched" => phase = "idle"

\* a query of a knowledge base whose build loaded the records and then
\* failed to fit the index
C11_Witness ==
  /\ kb_query.kind = "not searched"
  /\ ~is_built
  /\ regulations = LoadRegulationData
  /\ kb_result = <<>>

\* the corpus index of the returned record n
HitIndex(n) == CHOOSE i \in DOMAIN regulations : regulations[i].id = kb_result[n].id

\* record i goes before record j in the ranking of similarities sims
RanksBefore(sims, i, j) == sims[i] > sims[j] \/ (sims[i] = sims[j] /\ i < j)

\* C12: for every vector of similarities, the query returns exactly the
\* records whose similarity is at least the threshold, by descending
\* similarity and, among equals, in corpus order, cut to the first
\* max_results; each returned record is the stored record plus its
\* similarity_score.
C12_ThresholdRankTruncate ==
  kb_query.kind = "return" =>
    LET sims == kb_query.similarities
        above == {i \in DOMAIN regulations : sims[i] >= threshold}
        hits == {HitIndex(n) : n \in DOMAIN kb_result}
    IN  /\ Len(kb_result) = Min(max_results, Cardinality(above))
        /\ hits \subseteq above
        /\ \A n \in DOMAIN kb_result :
             kb_result[n] = WithSimilarity(regulations[HitIndex(n)], sims[HitIndex(n)])
        /\ \A n, m \in DOMAIN kb_result :
             n < m => RanksBefore(sims, HitIndex(n), HitIndex(m))
        /\ \A i \in above \ hits, j \in hits : RanksBefore(sims, j, i)

\* a query with more than max_results records at or above the threshold,
\* one of them exactly on it and returned, two equal ones returned in corpus
\* order, and one left out
C12_Witness ==
  /\ kb_query.kind = "return"
  /\ Len(kb_result) = max_results
  /\ Cardinality({i \in CorpusIdx : kb_query.similarities[i] >= threshold}) > max_results
  /\ \E n \in DOMAIN kb_result : kb_result[n].similarity_score = threshold
  /\ \E n \in 1..(Len(kb_result) - 1) :
       kb_result[n].similarity_score = kb_result[n + 1].similarity_score
  /\ \E i \in CorpusIdx : kb_query.similarities[i] = threshold - 1

Delimited(text, term) ==
  LET t == Lower(text)
      k == Lower(term)
      edge(p) == (p > 1 /\ t[p - 1] \in WordChars) # (p <= Len(t) /\ t[p] \in WordChars)
  IN  \E i \in 1..(Len(t) - Len(k) + 1) :
         /\ \A j \in 1..Len(k) : t[i + j - 1] = k[j]
         /\ edge(i)
         /\ edge(i + Len(k))

\* the text resolve_jargon was called with
ResolvedText == call.title

\* C14 as stated: resolve_jargon reports a dictionary term only when the
\* text holds the term delimited by word boundaries, for every dictionary.
C14_EveryTermDelimited ==
  (phase = "returned" /\ result.status = "resolved") =>
     \A n \in DOMAIN JargonDictionary :
        JargonDictionary[n][1] \in DictKeys(result.resolved_terms)
          => Delimited(ResolvedText, JargonDictionary[n][1])

\* C14: a dictionary term that is not a phrase of the compound table is
\* reported only when the text holds it delimited by word boundaries, letter
\* case aside, and is reported whenever the text does so and the resolution
\* did not fail; a phrase of the compound table is reported on any
\* occurrence, whether or not the dictionary holds it too.
C14_WordBoundaryMatch ==
  (phase = "returned" /\ result.status = "resolved") =>
     \A n \in DOMAIN JargonDictionary :
        LET term == JargonDictionary[n][1]
            reported == term \in DictKeys(result.resolved_terms)
        IN  IF term \in DictKeys(compound_terms)
            THEN ~result.fault =>
                   (reported <=> Contains(Lower(ResolvedText), Lower(term)))
            ELSE /\ reported => Delimited(ResolvedText, term)
                 /\ (~result.fault /\ Delimited(ResolvedText, term)) => reported

\* 'minority users' resolved with the seed dictionary: 'minor user' is in
\* the dictionary, occurs in the text inside longer words, and is not reported
C14_Witness ==
  /\ phase = "returned" /\ result.status = "resolved" /\ ~result.fault
  /\ ResolvedText = <<"m","i","n","o","r","i","t","y"," ","u","s","e","r","s">>
  /\ <<"m","i","n","o","r"," ","u","s","e","r">> \in DictKeys(JargonDictionary)
  /\ Contains(ResolvedText, <<"m","i","n","o","r">>)
  /\ result.resolved_terms = <<>>

(***************************************************************************)
(* Properties of the web service                                           *)
(***************************************************************************)
\* C15: every analyze_feature call eventually returns, whether or not the
\* provider ever answers: a request whose handler has started is eventually
\* done.
C15_EveryCallReturns ==
  \A r \in RequestIds : (requests[r].pc = "analysing") ~> (requests[r].pc = "done")

\* C16: requests do not serialize behind the remote call: whenever a
\* request waits for the provider and another request has been accepted,
\* the handler of an accepted request can start.
C16_StartsWhileAnotherWaits ==
  ((\E r \in RequestIds : requests[r].pc = "waiting") /\ queue # <<>>)
     => ENABLED StartHandler

C18_ScenarioB ==
  (NormalResult /\ FallbackPath /\ call = ScenarioB /\ trace.relevant_regulations = <<>>) =>
     /\ ~SignalJudgement
     /\ result.risk_score < 30
     /\ ~result.requires_geo_compliance

\* the full text of the call mentions the word, letter case aside
Mentions(word) == Contains(Lower(FullText(call)), word)

\* C19: Scenario A.  Every text that mentions 'curfew', 'parental' and
\* 'age verification', analysed with the fallback judgement, has the
\* child_safety category detected and counted with its weight of 40, a risk
\* score of at least 30 and requires_geo_compliance true, whatever
\* regulations were retrieved.
C19_ScenarioA ==
  ( /\ NormalResult /\ FallbackPath
    /\ Mentions(<<"c","u","r","f","e","w">>)
    /\ Mentions(<<"p","a","r","e","n","t","a","l">>)
    /\ Mentions(<<"a","g","e"," ","v","e","r","i","f","i","c","a","t","i","o","n">>) ) =>
     LET categories == MatchedCategories(trace.resolved_text)
         others == SumWeights(SelectSeq(categories, LAMBDA c : c # "child_safety"))
     IN  /\ \E n \in DOMAIN categories : categories[n] = "child_safety"
         /\ risk_weights["child_safety"] = 40
         /\ SignalJudgement
         /\ result.risk_score =
              Clamp(40 + others + RegulationPart(trace.relevant_regulations) + 22, 0, 100)
         /\ result.risk_score >= 30
         /\ result.requires_geo_compliance

\* a Scenario A text, split over three fields and in capitals, analysed
\* without a client and with no regulation retrieved: the flag rests on the
\* judgement and the score alone
C19_Witness ==
  /\ NormalResult /\ FallbackPath
  /\ call \in ScenarioA
  /\ call.prd # <<>>
  /\ trace.relevant_regulations = <<>>
  /\ result.risk_score >= 62
  /\ result.requires_geo_compliance

(***************************************************************************)
(* Properties of the search index                                          *)
(***************************************************************************)
\* C20: retrieval self-match.  A query with exactly the text a record was
\* indexed from returns a list whose first element is that record.
C20_SelfMatchFirst ==
  (kb_query.kind = "return" /\ "text" \in DOMAIN kb_query) =>
     \A i \in CorpusIdx :
        kb_query.text = regulation_texts[i] =>
           /\ kb_result # <<>>
           /\ kb_result[1].id = LoadRegulationData[i].id
           /\ \A j \in CorpusIdx \ {i} : kb_query.similarities[j] < kb_query.similarities[i]

\* the query with the text of the last record of the corpus: other records
\* are above the threshold too, and the last record is returned first
C20_Witness ==
  /\ kb_query.kind = "return" /\ "text" \in DOMAIN kb_query
  /\ kb_query.text = regulation_texts[8]
  /\ kb_query.stop_words # {}
  /\ Len(kb_result) >= 3
  /\ kb_result[1].id = LoadRegulationData[8].id

(***************************************************************************)
(* Properties of the remote reasoner's parsing                             *)
(***************************************************************************)
\* the fields a judgement must have
RequiredFields ==
  {"requires_compliance", "reasoning", "obligations", "likely_regions", "confidence"}

\* the judgement _fallback_compliance_analysis gives for the call
FallbackOfCall ==
  FallbackComplianceAnalysis(MatchedCategories(trace.resolved_text),
                             trace.relevant_regulations)

\* C21: a provider response whose JSON object lacks one of the required
\* fields requires_compliance, reasoning, obligations, likely_regions and
\* confidence is treated as unavailable: the judgement used is the fallback
\* judgement, never the partial object.
C21_PartialObjectFallsBack ==
  (phase = "returned" /\ trace.raised # "annotation" /\ trace.provider.kind = "return") =>
    LET parsed == ParseProviderOutput(trace.provider.raw_text)
    IN  (parsed.kind = "decoded" /\ ~(RequiredFields \subseteq DOMAIN parsed.value)) =>
          /\ trace.llm_analysis = FallbackOfCall
          /\ trace.llm_analysis # parsed.value

\* C22: when the provider output holds a judgement object followed by more
\* text with braces (a second object, a trailing }), the judgement used is
\* that first object: not the fallback, not a span up to the last }.
C22_FirstObjectUsed ==
  (phase = "returned" /\ trace.raised # "annotation" /\ trace.provider.kind = "return") =>
    LET raw_text == trace.provider.raw_text
        braces == {i \in DOMAIN raw_text : raw_text[i].kind # "prose"}
        first  == CHOOSE i \in braces : \A j \in braces : i <= j
    IN  (/\ braces # {}
         /\ raw_text[first].kind = "object"
         /\ RequiredFields \subseteq DOMAIN raw_text[first].value
         /\ \E j \in braces : j > first) =>
          trace.llm_analysis = raw_text[first].value

\* C23: the dictionary matches, the acronym matches and the compound-phrase
\* matches merge in that order and a later match never overwrites an earlier
\* one: the value reported for a key is the one of the earliest stage that
\* matched it, also when add_custom_jargon has put a compound-table phrase in
\* the dictionary.
C23_EarlierStageWins ==
  (phase = "returned" /\ result.status = "resolved" /\ ~result.fault) =>
    LET text == call.title
        dictionary == DictionaryMatches(JargonDictionary, Lower(text))
        acronyms   == FindAcronyms(text)
        compounds  == FindCompoundTerms(text)
        terms      == result.resolved_terms
    IN  /\ DictKeys(terms) = DictKeys(dictionary) \cup DictKeys(acronyms) \cup DictKeys(compounds)
        /\ \A k \in DictKeys(terms) :
              DictGet(terms, k) =
                IF k \in DictKeys(dictionary) THEN DictGet(dictionary, k)
                ELSE IF k \in DictKeys(acronyms) THEN DictGet(acronyms, k)
                ELSE DictGet(compounds, k)

(***************************************************************************)
(* Properties of the annotation                                            *)
(***************************************************************************)
\* text without the parentheticals " (meaning)" of the entries of jargon_map
RECURSIVE DeleteParentheticals(_, _)
DeleteParentheticals(text, jargon_map) ==
  IF jargon_map = <<>> THEN text
  ELSE LET inserted == <<" ", "(">> \o jargon_map[1][2] \o <<")">>
       IN  DeleteParentheticals(SubIgnoreCase(text, text, inserted, <<>>, 1),
                                Tail(jargon_map))

\* C24: annotation only inserts: the annotated text with the inserted
\* parentheticals deleted is the original text, character for character,
\* letter case included.
C24_AnnotationOnlyInserts ==
  NormalResult =>
    DeleteParentheticals(trace.resolved_text, result.jargon_resolved) = FullText(call)

(***************************************************************************)
(* Properties of the evidence and of the flag                              *)
(***************************************************************************)
\* C25: the evidence is the " | "-joined sequence of (1) the text, cut to its
\* first 200 characters and followed by "..." exactly when it is longer than
\* 200; (2) only when a regulation was retrieved, the names of the first
\* min(3, n) retrieved regulations, each with the categories detected
\* anywhere in the text; (3) exactly when the judgement has a confidence,
\* that confidence as a percentage.
C25_EvidenceLayout ==
  NormalResult =>
    LET text == trace.resolved_text
        regs == trace.relevant_regulations
        shown == IF Len(text) > 200 THEN SubSeq(text, 1, 200) \o <<".", ".", ".">> ELSE text
        categories == JoinStrings(MatchedCategories(text), ", ")
        shown_regs == IF Len(regs) < 3 THEN Len(regs) ELSE 3
        names == [i \in 1..shown_regs |->
                    regs[i].name \o " (matched keywords: " \o categories \o ")"]
        parts == <<"Feature text: " \o Str(shown)>>
                 \o (IF Len(regs) >= 1
                     THEN <<"Matched regulations: " \o JoinStrings(names, ", ")>> ELSE <<>>)
                 \o (IF "confidence" \in DOMAIN trace.llm_analysis
                     THEN <<"Analysis confidence: "
                            \o Format(trace.llm_analysis["confidence"]) \o "%">>
                     ELSE <<>>)
    IN  result.evidence = JoinStrings(parts, " | ")

\* a text of 214 characters with its only keyword after the cut, more than
\* three regulations retrieved, a judgement with a confidence
C25_Witness ==
  /\ NormalResult
  /\ Len(trace.resolved_text) > 200
  /\ ~KeywordPresent(SubSeq(trace.resolved_text, 1, 200))
  /\ MatchedCategories(trace.resolved_text) = <<"data_privacy">>
  /\ Len(trace.relevant_regulations) > 3
  /\ "confidence" \in DOMAIN trace.llm_analysis

\* C26: on the fallback path the flag of the result equals the fallback
\* judgement's requires_compliance, whatever the text and the regulations
\* retrieved: a detected category gives a score of at least 30 with the boost
\* of 22, and a retrieved regulation is a second true signal.
C26_FallbackFlagIsVerdict ==
  (phase = "returned" /\ FallbackPath) =>
    /\ trace.raised = "none"
    /\ trace.llm_analysis = FallbackOfCall
    /\ result.requires_geo_compliance = trace.llm_analysis.requires_compliance.v
    /\ KeywordPresent(trace.resolved_text) => result.risk_score >= 30
    /\ trace.relevant_regulations # <<>> => result.requires_geo_compliance

\* the lightest category alone (data_localization, 10) and no regulation:
\* the score is 10 + 22 and the call is flagged
C26_Witness ==
  /\ NormalResult
  /\ FallbackPath
  /\ MatchedCategories(trace.resolved_text) = <<"data_localization">>
  /\ trace.relevant_regulations = <<>>
  /\ result.risk_score = 32
  /\ result.requires_geo_compliance

\* C27: in every result of analyze_feature, normal or fail-open, a true flag
\* implies a risk score of at least 30 or a retrieved regulation: the
\* judgement alone never sets the flag.
C27_JudgementAloneNeverFlags ==
  phase = "returned" =>
    (result.requires_geo_compliance =>
       result.risk_score >= 30 \/ result.related_regulations # <<>>)

\* a remote judgement and the score flag a call without any regulation
C27_Witness ==
  /\ NormalResult
  /\ trace.provider.kind = "return"
  /\ SignalJudgement
  /\ result.related_regulations = <<>>
  /\ result.risk_score >= 30
  /\ result.requires_geo_compliance

RowsOfRequest ==
  SelectSeq(audit_trail, LAMBDA row : row.feature_id[1] = handler.request)

\* the feature ids of the first n features of the request in hand
FeatureIds(n) == [i \in 1..n |-> <<handler.request, i>>]

\* C29: in /analyze-feature a failure inside the analysis pipeline never
\* produces an HTTP error: the fail-open default result is returned with
\* status 200 and persisted like any other result.  A 500 arises only when
\* the analyzer is not initialised or when building the response or
\* persisting the record fails, and then at most one record of the request
\* has been written.
C29_FailOpenIsServed ==
  (handler.endpoint = "feature" /\ handler.pc = "responded") =>
    /\ handler.status \in {200, 500}
    /\ handler.status = 500 <=>
         handler.failed \in {"not initialized", "response", "database"}
    /\ handler.failed = "not initialized" <=> ~is_built
    /\ handler.status = 500 => Len(RowsOfRequest) <= 1
    /\ handler.status = 200 =>
         RowsOfRequest = <<[feature_id |-> <<handler.request, 1>>,
                            title |-> call.title,
                            requires_geo_compliance |-> result.requires_geo_compliance,
                            risk_score |-> result.risk_score]>>
    /\ (phase = "returned" /\ trace.raised # "none") =>
         /\ handler.failed \in {"nothing", "database"}
         /\ handler.failed = "nothing" =>
              /\ handler.status = 200
              /\ result.evidence = "Error in analysis pipeline"
              /\ ~RowsOfRequest[1].requires_geo_compliance
              /\ RowsOfRequest[1].risk_score = 0

\* the scoring stage raised on a confidence that is no number; the request
\* is answered 200 and its row is in the table
C29_Witness ==
  /\ handler.endpoint = "feature"
  /\ handler.pc = "responded"
  /\ phase = "returned"
  /\ trace.raised = "scoring"
  /\ handler.status = 200
  /\ Len(RowsOfRequest) = 1
  /\ Len(audit_trail) > 1

\* C30: /analyze-batch analyses and persists the features one at a time in
\* request order, each record committed before the next feature is analysed;
\* if persisting the k-th feature fails the request ends with a 500, exactly
\* the first k-1 records remain, no later feature is analysed and no CSV
\* export is generated.
C30_BatchCommitsInOrder ==
  handler.endpoint = "batch" =>
    LET saved == [i \in DOMAIN RowsOfRequest |-> RowsOfRequest[i].feature_id]
        k == handler.k
    IN  /\ \A i \in DOMAIN RowsOfRequest :
              /\ RowsOfRequest[i].title = handler.features[i].title
              /\ RowsOfRequest[i] = handler.results[i]
        /\ handler.pc \in {"analysing", "saving"} =>
              /\ saved = FeatureIds(k - 1)
              /\ call = handler.features[k]
        /\ handler.pc = "exporting" => saved = FeatureIds(Len(handler.features))
        /\ handler.csv_export =>
              /\ handler.status = 200
              /\ saved = FeatureIds(Len(handler.features))
        /\ (handler.pc = "responded" /\ handler.failed = "database") =>
              /\ handler.status = 500
              /\ saved = FeatureIds(k - 1)
              /\ call = handler.features[k]
              /\ Len(handler.results) = k
              /\ ~handler.csv_export

\* the save of the second of three features failed: one row of the request
\* is in the table, after the rows of an earlier request
C30_Witness ==
  /\ handler.endpoint = "batch"
  /\ handler.pc = "responded"
  /\ handler.failed = "database"
  /\ handler.k = 2
  /\ Len(handler.features) = 3
  /\ Len(RowsOfRequest) = 1
  /\ Len(audit_trail) > 1

=============================================================================
